---- MODULE Spec2Model ----
(***************************************************************************)
(* A model of the Vais front end: the lexer (src/parser/lexer.py), the     *)
(* recursive-descent parser (src/parser/parser.py) and the semantic        *)
(* validator (src/parser/validator.py).                                    *)
(*                                                                         *)
(* Python strings are TLA+ strings: s[i] is SubSeq(s, i+1, i+1), s + t is  *)
(* s \o t, len(s) is Len(s).  Python's None, where a character is          *)
(* expected (peek and advance at the end of the source), is NoChar, the    *)
(* empty string, which equals no character.  Everywhere else None is the   *)
(* record None, so that it can be compared with any node.                  *)
(***************************************************************************)
EXTENDS Integers, Sequences, FiniteSets, TLC

VARIABLES
    \* Lexer: its fields, and where tokenize stands
    source,     \* Lexer.source
    pos,        \* Lexer.pos (0-based)
    line,       \* Lexer.line
    column,     \* Lexer.column
    tokens,     \* Lexer.tokens
    lpc,        \* "idle" | "loop" | "returned" | "raised"
    lexc,       \* the exception tokenize raised, or None
    returned,   \* history: the lists the tokenize calls returned, as they were then
    \* Parser: its fields, the locals of parse, and where parse stands
    p_tokens,   \* Parser.tokens (newlines filtered out)
    p_pos,      \* Parser.pos (0-based)
    ppc,        \* "none" (no Parser yet), or the statement of the parser that runs next
    blocks,     \* the locals of parse(): the nine blocks parsed so far
    acc,        \* the locals of the block parser that is running
    result,     \* what parse / parse_expression returned, or None
    perr,       \* the exception that escaped the parser, or None
    loose,      \* history: positions of the tokens advance() consumed unexamined
    bend,       \* history: block name -> p_pos when that block's parser returned
    \* Validator: its fields, the argument of validate, and where validate stands
    validator,  \* the fields of the Validator object
    unit,       \* the tree validate was given (the object itself), or None
    vpc,        \* "none" (no Validator yet), "idle", or the pass of validate that runs next
    vexc,       \* the exception that escaped validate, or None
    hash_order, \* the iteration order of the set required_keys in this process
    calls,      \* history: the trees validate was called with, as they were then
    \* The process: the pipeline instances beside the one that runs
    peer        \* None, or the instance that waits and what each gave alone

lexvars == <<source, pos, line, column, tokens, lpc, lexc, returned>>
parvars == <<p_tokens, p_pos, ppc, blocks, acc, result, perr, loose, bend>>
valvars == <<validator, unit, vpc, vexc, hash_order, calls>>
vars == <<source, pos, line, column, tokens, lpc, lexc, returned,
          p_tokens, p_pos, ppc, blocks, acc, result, perr, loose, bend,
          validator, unit, vpc, vexc, hash_order, calls, peer>>

None == [kind |-> "None"]
NoChar == ""

(***************************************************************************)
(* Bounds of the model.                                                    *)
(***************************************************************************)
MaxSrcLen == 3

(***************************************************************************)
(* Characters: str.isdigit, str.isalpha, str.isalnum on ASCII.             *)
(***************************************************************************)
Digits == {"0", "1", "2", "3", "4", "5", "6", "7", "8", "9"}
Letters == {"a", "b", "c", "d", "e", "f", "g", "h", "i", "j", "k", "l", "m",
            "n", "o", "p", "q", "r", "s", "t", "u", "v", "w", "x", "y", "z",
            "A", "B", "C", "D", "E", "F", "G", "H", "I", "J", "K", "L", "M",
            "N", "O", "P", "Q", "R", "S", "T", "U", "V", "W", "X", "Y", "Z"}
isdigit(ch) == ch \in Digits
isalpha(ch) == ch \in Letters
isalnum(ch) == ch \in Digits \cup Letters

(***************************************************************************)
(* KEYWORDS: every keyword maps to the token type of the same name, except *)
(* 'true' and 'false', which map to BOOLEAN.                               *)
(***************************************************************************)
KeywordNames ==
    {"UNIT", "META", "ENDMETA", "INPUT", "ENDINPUT", "OUTPUT",
     "ENDOUTPUT", "INTENT", "ENDINTENT", "CONSTRAINT", "ENDCONSTRAINT",
     "FLOW", "ENDFLOW", "EXECUTION", "ENDEXECUTION", "VERIFY",
     "ENDVERIFY", "END", "FUNCTION", "SERVICE", "PIPELINE", "MODULE",
     "DOMAIN", "DETERMINISM", "IDEMPOTENT", "PURE", "TIMEOUT", "RETRY",
     "GOAL", "PRIORITY", "ON_FAILURE", "TRANSFORM", "VALIDATE",
     "AGGREGATE", "FILTER", "ROUTE", "COMPOSE", "FETCH", "CORRECTNESS",
     "PERFORMANCE", "MEMORY", "LATENCY", "THROUGHPUT", "ABORT",
     "FALLBACK", "DEFAULT", "REQUIRE", "FORBID", "PREFER", "INVARIANT",
     "WITHIN", "NODE", "EDGE", "WHEN", "MAP", "REDUCE", "SPLIT",
     "MERGE", "BRANCH", "JOIN", "RACE", "STORE", "CALL", "EMIT",
     "SUBSCRIBE", "SANITIZE", "AUTHORIZE", "PARALLEL", "TARGET",
     "ISOLATION", "CACHE", "ANY", "CPU", "GPU", "WASM", "NATIVE",
     "BOUNDED", "UNBOUNDED", "STACK_ONLY", "NONE", "THREAD", "PROCESS",
     "CONTAINER", "LRU", "TTL", "ASSERT", "PROPERTY", "POSTCONDITION",
     "TEST", "FORALL", "EXISTS", "EVENTUALLY", "ALWAYS", "INT", "INT8",
     "INT16", "INT32", "INT64", "UINT", "UINT8", "UINT16", "UINT32",
     "UINT64", "FLOAT32", "FLOAT64", "BOOL", "STRING", "BYTES", "VOID",
     "ARRAY", "STRUCT", "OPTIONAL", "UNION", "AND", "OR", "XOR", "NOT",
     "IMPLIES", "IN", "MATCH", "LEN", "CONTAINS", "RANGE", "NOW", "SUM",
     "COUNT"}

\* KEYWORDS.get(value, TokenType.IDENTIFIER)
KEYWORDS(value) ==
    IF value \in KeywordNames THEN value
    ELSE IF value \in {"true", "false"} THEN "BOOLEAN"
    ELSE "IDENTIFIER"

(***************************************************************************)
(* The lexer.  A cursor is the triple of fields (pos, line, column) that   *)
(* advance() updates; the read_* methods are operators from the cursor at  *)
(* their call to the cursor at their return, with the token they made.     *)
(***************************************************************************)
Cursor == [pos |-> pos, line |-> line, column |-> column]

charAt(i) == SubSeq(source, i + 1, i + 1)

peek(c, offset) ==
    IF c.pos + offset < Len(source) THEN charAt(c.pos + offset) ELSE NoChar

\* advance(): the cursor after it, and the character it returned
advance(c) ==
    IF c.pos >= Len(source) THEN [c |-> c, char |-> NoChar]
    ELSE LET ch == charAt(c.pos)
         IN  [c |-> [pos |-> c.pos + 1,
                     line |-> IF ch = "\n" THEN c.line + 1 ELSE c.line,
                     column |-> IF ch = "\n" THEN 1 ELSE c.column + 1],
              char |-> ch]

RECURSIVE skip_whitespace(_)
skip_whitespace(c) ==
    IF peek(c, 0) \in {" ", "\t", "\r"} THEN skip_whitespace(advance(c).c) ELSE c

RECURSIVE skip_to_eol(_)
skip_to_eol(c) ==
    IF peek(c, 0) # NoChar /\ peek(c, 0) # "\n" THEN skip_to_eol(advance(c).c) ELSE c

skip_comment(c) == IF peek(c, 0) = "#" THEN skip_to_eol(c) ELSE c

make_token(token_type, value, ln, col) ==
    [type |-> token_type, value |-> value, line |-> ln, column |-> col]

LexOk(c, token) == [ok |-> TRUE, c |-> c, token |-> token]
LexRaise(c, exc) == [ok |-> FALSE, c |-> c, exc |-> exc]

\* The loop of read_string.  `value += escaped` with escaped = None (the
\* backslash was the last character) is a TypeError.
RECURSIVE read_string_loop(_, _, _)
read_string_loop(c, quote, value) ==
    IF peek(c, 0) # NoChar /\ peek(c, 0) # quote
    THEN IF peek(c, 0) = "\\"
         THEN LET a == advance(advance(c).c)
                  escaped == a.char
              IN  IF escaped = "n" THEN read_string_loop(a.c, quote, value \o "\n")
                  ELSE IF escaped = "t" THEN read_string_loop(a.c, quote, value \o "\t")
                  ELSE IF escaped = "\\" THEN read_string_loop(a.c, quote, value \o "\\")
                  ELSE IF escaped = quote THEN read_string_loop(a.c, quote, value \o quote)
                  ELSE IF escaped = NoChar THEN [ok |-> FALSE, c |-> a.c, value |-> value]
                  ELSE read_string_loop(a.c, quote, value \o escaped)
         ELSE LET a == advance(c)
              IN  read_string_loop(a.c, quote, value \o a.char)
    ELSE [ok |-> TRUE, c |-> c, value |-> value]

read_string(c) ==
    LET a == advance(c)
        quote == a.char
        r == read_string_loop(a.c, quote, "")
    IN  IF ~r.ok THEN LexRaise(r.c, "TypeError")
        ELSE LexOk(IF peek(r.c, 0) = quote THEN advance(r.c).c ELSE r.c,
                   make_token("STRING_LITERAL", r.value, c.line, c.column))

\* The loop of read_regex: a backslash is kept and the character after it is
\* taken whatever it is; at the end of the source that character is None.
RECURSIVE read_regex_loop(_, _)
read_regex_loop(c, value) ==
    IF peek(c, 0) # NoChar /\ peek(c, 0) # "/"
    THEN LET b == IF peek(c, 0) = "\\" THEN advance(c) ELSE [c |-> c, char |-> ""]
             a == advance(b.c)
         IN  IF a.char = NoChar THEN [ok |-> FALSE, c |-> a.c, value |-> value \o b.char]
             ELSE read_regex_loop(a.c, value \o b.char \o a.char)
    ELSE [ok |-> TRUE, c |-> c, value |-> value]

read_regex(c) ==
    LET r == read_regex_loop(advance(c).c, "")
    IN  IF ~r.ok THEN LexRaise(r.c, "TypeError")
        ELSE LexOk(IF peek(r.c, 0) = "/" THEN advance(r.c).c ELSE r.c,
                   make_token("REGEX", r.value, c.line, c.column))

\* The digits-and-dot loop of read_number
RECURSIVE read_number_loop(_, _, _)
read_number_loop(c, value, is_float) ==
    IF peek(c, 0) # NoChar /\ (isdigit(peek(c, 0)) \/ peek(c, 0) = ".")
    THEN IF peek(c, 0) = "." /\ is_float
         THEN [c |-> c, value |-> value, is_float |-> is_float]
         ELSE read_number_loop(advance(c).c, value \o peek(c, 0),
                               is_float \/ peek(c, 0) = ".")
    ELSE [c |-> c, value |-> value, is_float |-> is_float]

read_number(c) ==
    LET neg == peek(c, 0) = "-"
        n == read_number_loop(IF neg THEN advance(c).c ELSE c,
                              IF neg THEN "-" ELSE "", FALSE)
        \* duration unit (ms, s, m, h)
        t == IF peek(n.c, 0) \in {"m", "s", "h"}
             THEN IF peek(n.c, 0) = "m" /\ peek(n.c, 1) = "s"
                  THEN [c |-> advance(advance(n.c).c).c, value |-> n.value \o "ms"]
                  ELSE [c |-> advance(n.c).c, value |-> n.value \o peek(n.c, 0)]
             ELSE [c |-> n.c, value |-> n.value]
        \* size unit (K, M, G, then B)
        k == IF peek(t.c, 0) \in {"K", "M", "G"}
             THEN [c |-> advance(t.c).c, value |-> t.value \o peek(t.c, 0)]
             ELSE t
        b == IF peek(t.c, 0) \in {"K", "M", "G"} /\ peek(k.c, 0) = "B"
             THEN [c |-> advance(k.c).c, value |-> k.value \o "B"]
             ELSE k
    IN  LexOk(b.c, make_token(IF n.is_float THEN "FLOAT" ELSE "NUMBER",
                              b.value, c.line, c.column))

RECURSIVE read_word(_, _)
read_word(c, value) ==
    IF peek(c, 0) # NoChar /\ (isalnum(peek(c, 0)) \/ peek(c, 0) = "_")
    THEN read_word(advance(c).c, value \o peek(c, 0))
    ELSE [c |-> c, value |-> value]

RECURSIVE read_version_tail(_, _)
read_version_tail(c, value) ==
    IF peek(c, 0) # NoChar /\ (isdigit(peek(c, 0)) \/ peek(c, 0) = ".")
    THEN read_version_tail(advance(c).c, value \o peek(c, 0))
    ELSE [c |-> c, value |-> value]

read_identifier(c) ==
    LET w == read_word(c, "")
    IN  IF SubSeq(w.value, 1, 1) = "V" /\ Len(w.value) > 1 /\ isdigit(SubSeq(w.value, 2, 2))
        THEN LET v == read_version_tail(w.c, w.value)
             IN  LexOk(v.c, make_token("VERSION", v.value, c.line, c.column))
        ELSE LexOk(w.c, make_token(KEYWORDS(w.value), w.value, c.line, c.column))

RECURSIVE read_ref_tail(_, _)
read_ref_tail(c, value) ==
    IF peek(c, 0) # NoChar /\ (isalnum(peek(c, 0)) \/ peek(c, 0) \in {"_", "."})
    THEN read_ref_tail(advance(c).c, value \o peek(c, 0))
    ELSE [c |-> c, value |-> value]

read_external_ref(c) ==
    LET r == read_ref_tail(advance(c).c, "@")
    IN  LexOk(r.c, make_token("EXTERNAL_REF", r.value, c.line, c.column))

TwoCharTokens == {"->", ">=", "<=", "==", "!="}
two_char_type(s) ==
    CASE s = "->" -> "ARROW" [] s = ">=" -> "GTE" [] s = "<=" -> "LTE"
      [] s = "==" -> "EQ" [] s = "!=" -> "NEQ"

SingleCharTokens ==
    {":", ",", ".", ">", "<", "=", "(", ")", "[", "]", "{", "}", "|", "+", "-", "*", "/"}
single_char_tokens(ch) ==
    CASE ch = ":" -> "COLON" [] ch = "," -> "COMMA" [] ch = "." -> "DOT"
      [] ch = ">" -> "GT" [] ch = "<" -> "LT" [] ch = "=" -> "ASSIGN"
      [] ch = "(" -> "LPAREN" [] ch = ")" -> "RPAREN"
      [] ch = "[" -> "LBRACKET" [] ch = "]" -> "RBRACKET"
      [] ch = "{" -> "LBRACE" [] ch = "}" -> "RBRACE" [] ch = "|" -> "PIPE"
      [] ch = "+" -> "PLUS" [] ch = "-" -> "MINUS" [] ch = "*" -> "STAR"
      [] ch = "/" -> "SLASH"

\* The cursor at `char = self.peek()`: after skip_whitespace and skip_comment
LoopCursor == skip_comment(skip_whitespace(Cursor))

\* Which branch of the loop body of tokenize takes the character at cursor c
LexBranch(c) ==
    LET char == peek(c, 0)
        next == peek(c, 1)
    IN  IF char = "\n" THEN "newline"
        ELSE IF char \in {"\"", "'"} THEN "string"
        ELSE IF char = "/" /\ next # NoChar /\ next \notin {" ", "\t", "\n"} THEN "regex"
        ELSE IF isdigit(char) \/ (char = "-" /\ next # NoChar /\ isdigit(next)) THEN "number"
        ELSE IF char = "@" THEN "external_ref"
        ELSE IF isalpha(char) \/ char = "_" THEN "identifier"
        ELSE IF char \o next \in TwoCharTokens THEN "two_char"
        ELSE IF char \in SingleCharTokens THEN "single_char"
        ELSE "unknown"

\* One turn of the loop of tokenize that runs branch `branch` and gets r from it
LexTurn(branch, r) ==
    /\ lpc = "loop"
    /\ LoopCursor.pos < Len(source)
    /\ LexBranch(LoopCursor) = branch
    /\ pos' = r.c.pos
    /\ line' = r.c.line
    /\ column' = r.c.column
    /\ IF r.ok
       THEN tokens' = Append(tokens, r.token) /\ UNCHANGED <<lpc, lexc>>
       ELSE lpc' = "raised" /\ lexc' = [kind |-> r.exc] /\ UNCHANGED tokens
    /\ UNCHANGED <<source, returned, parvars, valvars, peer>>

LexNewline ==
    LET c == LoopCursor
    IN  LexTurn("newline", LexOk(advance(c).c, make_token("NEWLINE", "\n", c.line, c.column)))

LexString == LexTurn("string", read_string(LoopCursor))

LexRegex == LexTurn("regex", read_regex(LoopCursor))

LexNumber == LexTurn("number", read_number(LoopCursor))

LexExternalRef == LexTurn("external_ref", read_external_ref(LoopCursor))

LexIdentifier == LexTurn("identifier", read_identifier(LoopCursor))

LexTwoChar ==
    LET c == LoopCursor
        s == peek(c, 0) \o peek(c, 1)
    IN  LexTurn("two_char", LexOk(advance(advance(c).c).c,
                                  make_token(two_char_type(s), s, c.line, c.column)))

LexSingleChar ==
    LET c == LoopCursor
    IN  LexTurn("single_char", LexOk(advance(c).c,
                    make_token(single_char_tokens(peek(c, 0)), peek(c, 0), c.line, c.column)))

LexUnknown ==
    LET c == LoopCursor
    IN  LexTurn("unknown", LexOk(advance(c).c,
                                 make_token("UNKNOWN", peek(c, 0), c.line, c.column)))

\* The loop ends (its condition fails, or the break after the skips): the EOF
\* token is appended and tokenize returns self.tokens.
LexEOF ==
    LET c == LoopCursor
    IN  /\ lpc = "loop"
        /\ c.pos >= Len(source)
        /\ pos' = c.pos
        /\ line' = c.line
        /\ column' = c.column
        /\ tokens' = Append(tokens, make_token("EOF", "", c.line, c.column))
        /\ lpc' = "returned"
        /\ returned' = Append(returned, tokens')
        /\ UNCHANGED <<source, lexc, parvars, valvars, peer>>

tokenize ==
    \/ LexNewline \/ LexString \/ LexRegex \/ LexNumber \/ LexExternalRef
    \/ LexIdentifier \/ LexTwoChar \/ LexSingleChar \/ LexUnknown \/ LexEOF

(***************************************************************************)
(* Python's conversions, as the parser uses them on token texts.           *)
(***************************************************************************)
RECURSIVE rstrip(_, _)
rstrip(s, chars) ==
    IF Len(s) > 0 /\ SubSeq(s, Len(s), Len(s)) \in chars
    THEN rstrip(SubSeq(s, 1, Len(s) - 1), chars)
    ELSE s

RECURSIVE all_digits(_)
all_digits(s) ==
    Len(s) = 0 \/ (isdigit(SubSeq(s, 1, 1)) /\ all_digits(SubSeq(s, 2, Len(s))))

digit_value(ch) ==
    CASE ch = "0" -> 0 [] ch = "1" -> 1 [] ch = "2" -> 2 [] ch = "3" -> 3
      [] ch = "4" -> 4 [] ch = "5" -> 5 [] ch = "6" -> 6 [] ch = "7" -> 7
      [] ch = "8" -> 8 [] ch = "9" -> 9

RECURSIVE digits_value(_)
digits_value(s) ==
    IF Len(s) = 0 THEN 0
    ELSE 10 * digits_value(SubSeq(s, 1, Len(s) - 1)) + digit_value(SubSeq(s, Len(s), Len(s)))

unsigned(s) == IF SubSeq(s, 1, 1) \in {"-", "+"} THEN SubSeq(s, 2, Len(s)) ELSE s
sign_of(s) == IF SubSeq(s, 1, 1) = "-" THEN -1 ELSE 1

\* int(s): an optional sign and one or more digits, else ValueError
py_int(s) ==
    LET d == unsigned(s)
    IN  IF Len(d) > 0 /\ all_digits(d)
        THEN [ok |-> TRUE, val |-> [int |-> sign_of(s) * digits_value(d)]]
        ELSE [ok |-> FALSE, exc |-> "ValueError"]

RECURSIVE dot_index(_, _)
dot_index(s, i) ==
    IF i > Len(s) THEN 0
    ELSE IF SubSeq(s, i, i) = "." THEN i
    ELSE dot_index(s, i + 1)

RECURSIVE float_norm(_, _)
float_norm(m, e) ==
    IF e > 0 /\ m % 10 = 0 THEN float_norm(m \div 10, e - 1) ELSE [m |-> m, e |-> e]

\* float(s): an optional sign, digits with at most one point and at least one
\* digit, else ValueError.  The value is m / 10^e.
py_float(s) ==
    LET d == unsigned(s)
        k == dot_index(d, 1)
        ip == IF k = 0 THEN d ELSE SubSeq(d, 1, k - 1)
        fp == IF k = 0 THEN "" ELSE SubSeq(d, k + 1, Len(d))
    IN  IF Len(ip) + Len(fp) > 0 /\ all_digits(ip) /\ all_digits(fp)
        THEN [ok |-> TRUE,
              val |-> [float |-> float_norm(sign_of(s) * digits_value(ip \o fp), Len(fp))]]
        ELSE [ok |-> FALSE, exc |-> "ValueError"]

(***************************************************************************)
(* The parser.  Every parse_* method is an operator from Parser.pos at its *)
(* call to the outcome: Ok(pos at return, value returned) or Raise(pos at  *)
(* the raise, exception).                                                  *)
(***************************************************************************)
Ok(p, val) == [ok |-> TRUE, pos |-> p, val |-> val]
Raise(p, err) == [ok |-> FALSE, pos |-> p, err |-> err]

\* Sequencing: the outcome r of a call, and what follows when it did not
\* raise.  The call is made once: x is its outcome, not the call.
then(r, K(_)) == CHOOSE y \in {IF x.ok THEN K(x) ELSE x : x \in {r}} : TRUE

\* ParseError(message, line, column, token)
\* A ParseError that carries no position
ParseErrorNoPosition(message, token) ==
    [kind |-> "ParseError", message |-> message, line |-> 0, column |-> 0, token |-> token]

ParseError(message, token) ==
    [kind |-> "ParseError", message |-> message,
     line |-> token.line, column |-> token.column, token |-> token]
\* An exception of Python that is not a ParseError, raised while at `token`
PyError(exc, token) ==
    [kind |-> exc, message |-> [text |-> exc],
     line |-> token.line, column |-> token.column, token |-> token]

current(p) ==
    IF p < Len(p_tokens) THEN p_tokens[p + 1] ELSE p_tokens[Len(p_tokens)]

peek_token(p, offset) ==
    IF p + offset < Len(p_tokens) THEN p_tokens[p + offset + 1] ELSE p_tokens[Len(p_tokens)]

\* advance(): the position after it (the token it returns is current(p))
advance_pos(p) == IF p < Len(p_tokens) - 1 THEN p + 1 ELSE p

match(p, token_types) == current(p).type \in token_types

expect(p, token_types) ==
    IF current(p).type \notin token_types
    THEN Raise(p, ParseError([text |-> "Expected", expected |-> token_types,
                              got |-> current(p).type], current(p)))
    ELSE Ok(advance_pos(p), current(p))

\* ---- expressions -------------------------------------------------------
Literal(value, literal_type, token) ==
    [kind |-> "Literal", value |-> value, literal_type |-> literal_type,
     line |-> token.line, column |-> token.column]
Identifier(name, token) ==
    [kind |-> "Identifier", name |-> name, line |-> token.line, column |-> token.column]
ExternalRef(ref, token) ==
    [kind |-> "ExternalRef", ref |-> ref, line |-> token.line, column |-> token.column]
FieldAccess(base, field_name, token) ==
    [kind |-> "FieldAccess", base |-> base, field_name |-> field_name,
     line |-> token.line, column |-> token.column]
FunctionCall(name, arguments, token) ==
    [kind |-> "FunctionCall", name |-> name, arguments |-> arguments,
     line |-> token.line, column |-> token.column]
BinaryOp(left, operator, right) ==
    [kind |-> "BinaryOp", left |-> left, operator |-> operator, right |-> right,
     line |-> left.line, column |-> left.column]
UnaryOp(operator, operand) ==
    [kind |-> "UnaryOp", operator |-> operator, operand |-> operand,
     line |-> operand.line, column |-> operand.column]

compare_ops == {"EQ", "NEQ", "LT", "GT", "LTE", "GTE", "IN", "MATCH"}
builtin_funcs == {"LEN", "CONTAINS", "RANGE", "NOW", "SUM", "COUNT"}

\* parse_field_access after its first identifier: the loop over `.name`
RECURSIVE field_parts(_, _)
field_parts(p, parts) ==
    IF match(p, {"DOT"})
    THEN IF match(advance_pos(p), {"IDENTIFIER"})
         THEN field_parts(advance_pos(advance_pos(p)),
                          Append(parts, current(advance_pos(p)).value))
         ELSE [pos |-> advance_pos(p), parts |-> parts]
    ELSE [pos |-> p, parts |-> parts]

RECURSIVE field_chain(_, _, _, _)
field_chain(expr, parts, i, token) ==
    IF i > Len(parts) THEN expr
    ELSE field_chain(FieldAccess(expr, parts[i], token), parts, i + 1, token)

field_access_node(r, token) ==
    Ok(r.pos, field_chain(Identifier(r.parts[1], token), r.parts, 2, token))

parse_field_access(p) ==
    then(expect(p, {"IDENTIFIER"}),
         LAMBDA first : field_access_node(field_parts(first.pos, <<first.val.value>>),
                                          current(p)))

RECURSIVE parse_expression(_)
RECURSIVE or_loop_flat(_, _)
RECURSIVE additive_loop_right(_, _)
RECURSIVE parse_or_expression(_)
RECURSIVE or_loop(_, _)
RECURSIVE parse_and_expression(_)
RECURSIVE and_loop(_, _)
RECURSIVE parse_comparison(_)
RECURSIVE comparison_loop(_, _)
RECURSIVE parse_additive(_)
RECURSIVE additive_loop(_, _)
RECURSIVE parse_multiplicative(_)
RECURSIVE multiplicative_loop(_, _)
RECURSIVE parse_unary(_)
RECURSIVE parse_primary(_)
RECURSIVE call_args(_, _)

parse_expression(p) == parse_or_expression(p)

\* The operand just parsed, joined to the pending left operand and operator
\* of the enclosing while loop (none before the loop is entered)
joined(pending, right) ==
    IF Len(pending) = 0 THEN right ELSE BinaryOp(pending[1], pending[2], right)

\* An or-loop that takes comparisons, not and-expressions, as operands
or_loop_flat(p, pending) ==
    then(parse_comparison(p),
         LAMBDA r : IF match(r.pos, {"OR"})
                    THEN or_loop_flat(advance_pos(r.pos),
                                      <<joined(pending, r.val), current(r.pos).value>>)
                    ELSE Ok(r.pos, joined(pending, r.val)))

\* parse_or_expression: an operand, then the while loop on the operator that follows
or_loop(p, pending) ==
    then(parse_and_expression(p),
         LAMBDA r : IF match(r.pos, {"OR"})
                    THEN or_loop(advance_pos(r.pos),
                                  <<joined(pending, r.val), current(r.pos).value>>)
                    ELSE Ok(r.pos, joined(pending, r.val)))

parse_or_expression(p) == or_loop(p, <<>>)

\* parse_and_expression: an operand, then the while loop on the operator that follows
and_loop(p, pending) ==
    then(parse_comparison(p),
         LAMBDA r : IF match(r.pos, {"AND"})
                    THEN and_loop(advance_pos(r.pos),
                                  <<joined(pending, r.val), current(r.pos).value>>)
                    ELSE Ok(r.pos, joined(pending, r.val)))

parse_and_expression(p) == and_loop(p, <<>>)

\* parse_comparison: an operand, then the while loop on the operator that follows
comparison_loop(p, pending) ==
    then(parse_additive(p),
         LAMBDA r : IF current(r.pos).type \in compare_ops
                    THEN comparison_loop(advance_pos(r.pos),
                                  <<joined(pending, r.val), current(r.pos).value>>)
                    ELSE Ok(r.pos, joined(pending, r.val)))

parse_comparison(p) == comparison_loop(p, <<>>)

\* An additive loop that groups to the right
additive_loop_right(p, pending) ==
    then(parse_multiplicative(p),
         LAMBDA r : IF match(r.pos, {"PLUS", "MINUS"})
                    THEN then(additive_loop_right(advance_pos(r.pos), pending),
                              LAMBDA rest : Ok(rest.pos, BinaryOp(r.val, current(r.pos).value,
                                                                  rest.val)))
                    ELSE Ok(r.pos, r.val))

\* parse_additive: an operand, then the while loop on the operator that follows
additive_loop(p, pending) ==
    then(parse_multiplicative(p),
         LAMBDA r : IF match(r.pos, {"PLUS", "MINUS"})
                    THEN additive_loop(advance_pos(r.pos),
                                  <<joined(pending, r.val), current(r.pos).value>>)
                    ELSE Ok(r.pos, joined(pending, r.val)))

parse_additive(p) == additive_loop(p, <<>>)

\* parse_multiplicative: an operand, then the while loop on the operator that follows
multiplicative_loop(p, pending) ==
    then(parse_unary(p),
         LAMBDA r : IF match(r.pos, {"STAR", "SLASH"})
                    THEN multiplicative_loop(advance_pos(r.pos),
                                  <<joined(pending, r.val), current(r.pos).value>>)
                    ELSE Ok(r.pos, joined(pending, r.val)))

parse_multiplicative(p) == multiplicative_loop(p, <<>>)

parse_unary(p) ==
    IF match(p, {"NOT", "MINUS"})
    THEN then(parse_unary(advance_pos(p)),
              LAMBDA operand : Ok(operand.pos, UnaryOp(current(p).value, operand.val)))
    ELSE parse_primary(p)

\* The argument list of a builtin call after its first argument
call_args(p, args) ==
    IF match(p, {"COMMA"})
    THEN then(parse_expression(advance_pos(p)),
              LAMBDA a : call_args(a.pos, Append(args, a.val)))
    ELSE Ok(p, args)

\* int(...) / float(...) of a literal's text, after the token was consumed
converted(v, literal_type, token, q) ==
    IF ~v.ok THEN Raise(q, PyError(v.exc, token))
    ELSE Ok(q, Literal(v.val, literal_type, token))

parse_primary(p) ==
    LET token == current(p)
        q == advance_pos(p)
    IN  CASE token.type = "LPAREN" ->
               then(parse_expression(q),
                    LAMBDA e : then(expect(e.pos, {"RPAREN"}), LAMBDA c : Ok(c.pos, e.val)))
          [] token.type = "NUMBER" ->
               converted(py_int(rstrip(token.value, {"s", "m", "h", "K", "M", "G", "B"})),
                         "number", token, q)
          [] token.type = "FLOAT" ->
               converted(py_float(token.value), "float", token, q)
          [] token.type = "STRING_LITERAL" ->
               Ok(q, Literal([str |-> token.value], "string", token))
          [] token.type = "BOOLEAN" ->
               Ok(q, Literal([bool |-> token.value = "true"], "bool", token))
          [] token.type = "REGEX" ->
               Ok(q, Literal([str |-> token.value], "regex", token))
          [] token.type = "VOID" ->
               Ok(q, Literal(None, "void", token))
          [] token.type = "EXTERNAL_REF" ->
               Ok(q, ExternalRef(token.value, token))
          [] token.type \in builtin_funcs ->
               IF match(q, {"LPAREN"})
               THEN then(IF match(advance_pos(q), {"RPAREN"}) THEN Ok(advance_pos(q), <<>>)
                         ELSE then(parse_expression(advance_pos(q)),
                                   LAMBDA a : call_args(a.pos, <<a.val>>)),
                         LAMBDA args :
                             then(expect(args.pos, {"RPAREN"}),
                                  LAMBDA c : Ok(c.pos, FunctionCall(token.value, args.val, token))))
               ELSE Ok(q, Identifier(token.value, token))
          [] token.type = "IDENTIFIER" -> parse_field_access(p)
          [] token.type \in {"INPUT", "OUTPUT"} ->
               IF match(q, {"DOT"})
               THEN then(expect(advance_pos(q), {"IDENTIFIER"}),
                         LAMBDA f : Ok(f.pos, FieldAccess(Identifier(token.value, token),
                                                          f.val.value, token)))
               ELSE Ok(q, Identifier(token.value, token))
          [] OTHER ->
               Raise(p, ParseError([text |-> "Unexpected token", got |-> token.type], token))

\* ---- types and names ----------------------------------------------------
PrimitiveType(name, token) ==
    [kind |-> "PrimitiveType", name |-> name, line |-> token.line, column |-> token.column]
ArrayType(element_type, token) ==
    [kind |-> "ArrayType", element_type |-> element_type,
     line |-> token.line, column |-> token.column]
MapType(key_type, value_type, token) ==
    [kind |-> "MapType", key_type |-> key_type, value_type |-> value_type,
     line |-> token.line, column |-> token.column]
StructType(fields, token) ==
    [kind |-> "StructType", fields |-> fields, line |-> token.line, column |-> token.column]
OptionalType(inner_type, token) ==
    [kind |-> "OptionalType", inner_type |-> inner_type,
     line |-> token.line, column |-> token.column]
UnionType(types, token) ==
    [kind |-> "UnionType", types |-> types, line |-> token.line, column |-> token.column]
TypeRef(ref, token) ==
    [kind |-> "TypeRef", ref |-> ref, line |-> token.line, column |-> token.column]
QualifiedName(parts, token) ==
    [kind |-> "QualifiedName", parts |-> parts, line |-> token.line, column |-> token.column]

primitive_types ==
    {"INT", "INT8", "INT16", "INT32", "INT64", "UINT", "UINT8", "UINT16", "UINT32",
     "UINT64", "FLOAT32", "FLOAT64", "BOOL", "STRING", "BYTES", "VOID"}

\* fields[field_name] = field_type on a dict kept as a sequence of pairs in
\* insertion order: a repeated key keeps its place and takes the new value
dict_set(fields, name, value) ==
    IF \E i \in 1..Len(fields) : fields[i][1] = name
    THEN [i \in 1..Len(fields) |->
             IF fields[i][1] = name THEN <<name, value>> ELSE fields[i]]
    ELSE Append(fields, <<name, value>>)

RECURSIVE parse_type(_)
RECURSIVE struct_fields(_, _)
RECURSIVE union_types(_, _)

\* `<` T `>` after the keyword of ARRAY and OPTIONAL
type_argument(p) ==
    then(expect(p, {"LT"}),
         LAMBDA lt : then(parse_type(lt.pos),
                          LAMBDA t : then(expect(t.pos, {"GT"}), LAMBDA gt : Ok(gt.pos, t.val))))

\* `<` K `,` V `>` after MAP
map_arguments(p) ==
    then(expect(p, {"LT"}),
         LAMBDA lt : then(parse_type(lt.pos),
             LAMBDA k : then(expect(k.pos, {"COMMA"}),
                 LAMBDA comma : then(parse_type(comma.pos),
                     LAMBDA v : then(expect(v.pos, {"GT"}),
                         LAMBDA gt : Ok(gt.pos, <<k.val, v.val>>))))))

\* The while loop over the fields of STRUCT { ... }
struct_fields(p, fields) ==
    IF match(p, {"RBRACE"}) THEN Ok(p, fields)
    ELSE then(expect(p, {"IDENTIFIER"}),
              LAMBDA name : then(expect(name.pos, {"COLON"}),
                  LAMBDA colon : then(parse_type(colon.pos),
                      LAMBDA t : struct_fields(
                          IF match(t.pos, {"COMMA"}) THEN advance_pos(t.pos) ELSE t.pos,
                          dict_set(fields, name.val.value, t.val)))))

\* T1 | T2 | ... of UNION
union_types(p, types) ==
    then(parse_type(p),
         LAMBDA t : IF match(t.pos, {"PIPE"})
                    THEN union_types(advance_pos(t.pos), Append(types, t.val))
                    ELSE Ok(t.pos, Append(types, t.val)))

parse_type(p) ==
    LET token == current(p)
        q == advance_pos(p)
    IN  CASE token.type \in primitive_types -> Ok(q, PrimitiveType(token.value, token))
          [] token.type = "ARRAY" ->
               then(type_argument(q), LAMBDA t : Ok(t.pos, ArrayType(t.val, token)))
          [] token.type = "MAP" ->
               then(map_arguments(q),
                    LAMBDA kv : Ok(kv.pos, MapType(kv.val[1], kv.val[2], token)))
          [] token.type = "STRUCT" ->
               then(expect(q, {"LBRACE"}),
                    LAMBDA lb : then(struct_fields(lb.pos, <<>>),
                        LAMBDA f : then(expect(f.pos, {"RBRACE"}),
                            LAMBDA rb : Ok(rb.pos, StructType(f.val, token)))))
          [] token.type = "OPTIONAL" ->
               then(type_argument(q), LAMBDA t : Ok(t.pos, OptionalType(t.val, token)))
          [] token.type = "UNION" ->
               then(expect(q, {"LT"}),
                    LAMBDA lt : then(union_types(lt.pos, <<>>),
                        LAMBDA ts : then(expect(ts.pos, {"GT"}),
                            LAMBDA gt : Ok(gt.pos, UnionType(ts.val, token)))))
          [] token.type = "EXTERNAL_REF" -> Ok(q, TypeRef(token.value, token))
          [] OTHER ->
               Raise(p, ParseError([text |-> "Expected type", got |-> token.type], token))

\* The while loop of parse_qualified_name over `.name`
RECURSIVE qualified_parts(_, _)
qualified_parts(p, parts) ==
    IF match(p, {"DOT"})
    THEN then(expect(advance_pos(p), {"IDENTIFIER"}),
              LAMBDA part : qualified_parts(part.pos, Append(parts, part.val.value)))
    ELSE Ok(p, parts)

parse_qualified_name(p) ==
    then(expect(p, {"IDENTIFIER"}),
         LAMBDA first : then(qualified_parts(first.pos, <<first.val.value>>),
                             LAMBDA parts : Ok(parts.pos, QualifiedName(parts.val, current(p)))))

\* ".".join(parts)
RECURSIVE join_dot(_)
join_dot(parts) ==
    IF Len(parts) = 1 THEN parts[1] ELSE parts[1] \o "." \o join_dot(Tail(parts))

full_name(qn) == join_dot(qn.parts)

\* ---- blocks ---------------------------------------------------------------
\* An optional value that is present (None when absent)
Some(v) == [kind |-> "Some", value |-> v]

\* The result of one turn of a block's loop: the position, the block's
\* accumulated state, and the positions advance() consumed without looking at
\* the token's type
Step(p, val, unexamined) == [ok |-> TRUE, pos |-> p, val |-> val, loose |-> unexamined]

UnitBlock(unit_type, unit_id, version, token) ==
    [kind |-> "UnitBlock", unit_type |-> unit_type, unit_id |-> unit_id,
     version |-> version, line |-> token.line, column |-> token.column]

unit_type_map == {"FUNCTION", "SERVICE", "PIPELINE", "MODULE"}

parse_unit_block(p) ==
    then(expect(p, {"UNIT"}),
         LAMBDA token : then(expect(token.pos, unit_type_map),
             LAMBDA unit_type : then(parse_qualified_name(unit_type.pos),
                 LAMBDA unit_id :
                     IF match(unit_id.pos, {"VERSION"})
                     THEN Ok(advance_pos(unit_id.pos),
                             UnitBlock(unit_type.val.type, unit_id.val,
                                       Some(current(unit_id.pos).value), token.val))
                     ELSE Ok(unit_id.pos,
                             UnitBlock(unit_type.val.type, unit_id.val, None, token.val)))))

MetaBlock(entries, token) ==
    [kind |-> "MetaBlock", entries |-> entries, line |-> token.line, column |-> token.column]
MetaEntry(key, value, token) ==
    [kind |-> "MetaEntry", key |-> key, value |-> value,
     line |-> token.line, column |-> token.column]

key_tokens == {"DOMAIN", "DETERMINISM", "IDEMPOTENT", "PURE", "TIMEOUT", "RETRY"}

parse_meta_entry(p) ==
    then(expect(p, key_tokens),
         LAMBDA key :
             CASE match(key.pos, {"BOOLEAN"}) ->
                    Step(advance_pos(key.pos),
                         MetaEntry(key.val.value, [bool |-> current(key.pos).value = "true"],
                                   key.val), {})
               [] match(key.pos, {"NUMBER"}) ->
                    Step(advance_pos(key.pos),
                         MetaEntry(key.val.value, [str |-> current(key.pos).value], key.val), {})
               [] match(key.pos, {"IDENTIFIER"}) ->
                    then(parse_qualified_name(key.pos),
                         LAMBDA n : Step(n.pos, MetaEntry(key.val.value,
                                                          [str |-> full_name(n.val)], key.val), {}))
               [] OTHER ->
                    Step(advance_pos(key.pos),
                         MetaEntry(key.val.value, [str |-> current(key.pos).value], key.val),
                         {key.pos}))

InputBlock(entries, token) ==
    [kind |-> "InputBlock", entries |-> entries, line |-> token.line, column |-> token.column]
InputEntry(name, type_node, constraints, token) ==
    [kind |-> "InputEntry", name |-> name, type_node |-> type_node,
     constraints |-> constraints, line |-> token.line, column |-> token.column]
InputConstraint(expression) ==
    [kind |-> "InputConstraint", expression |-> expression,
     line |-> expression.line, column |-> expression.column]
OutputBlock(entries, token) ==
    [kind |-> "OutputBlock", entries |-> entries, line |-> token.line, column |-> token.column]
OutputEntry(name, type_node, constraints, token) ==
    [kind |-> "OutputEntry", name |-> name, type_node |-> type_node,
     constraints |-> constraints, line |-> token.line, column |-> token.column]

\* The while loop over the constraints between [ and ] of an entry
RECURSIVE entry_constraints(_, _)
entry_constraints(p, constraints) ==
    IF match(p, {"RBRACKET"}) THEN Ok(p, constraints)
    ELSE then(parse_expression(p),
              LAMBDA expr : entry_constraints(
                  IF match(expr.pos, {"COMMA"}) THEN advance_pos(expr.pos) ELSE expr.pos,
                  Append(constraints, InputConstraint(expr.val))))

\* The optional [ ... ] after the type of an INPUT or OUTPUT entry
constraint_brackets(p) ==
    IF match(p, {"LBRACKET"})
    THEN then(entry_constraints(advance_pos(p), <<>>),
              LAMBDA cs : then(expect(cs.pos, {"RBRACKET"}), LAMBDA rb : Ok(rb.pos, cs.val)))
    ELSE Ok(p, <<>>)

parse_input_entry(p) ==
    then(expect(p, {"IDENTIFIER"}),
         LAMBDA name : then(expect(name.pos, {"COLON"}),
             LAMBDA colon : then(parse_type(colon.pos),
                 LAMBDA t : then(constraint_brackets(t.pos),
                     LAMBDA cs : Ok(cs.pos, InputEntry(name.val.value, t.val, cs.val,
                                                       name.val))))))

parse_output_entry(p) ==
    then(expect(p, {"IDENTIFIER"}),
         LAMBDA name : then(expect(name.pos, {"COLON"}),
             LAMBDA colon : then(parse_type(colon.pos),
                 LAMBDA t : then(constraint_brackets(t.pos),
                     LAMBDA cs : Ok(cs.pos, OutputEntry(name.val.value, t.val, cs.val,
                                                        name.val))))))

IntentBlock(goal_type, goal_spec, priorities, failure_strategy, failure_ref, token) ==
    [kind |-> "IntentBlock", goal_type |-> goal_type, goal_spec |-> goal_spec,
     priorities |-> priorities, failure_strategy |-> failure_strategy,
     failure_ref |-> failure_ref, line |-> token.line, column |-> token.column]
GoalSpec(inputs, outputs, token) ==
    [kind |-> "GoalSpec", inputs |-> inputs, outputs |-> outputs,
     line |-> token.line, column |-> token.column]

goal_type_map == {"TRANSFORM", "VALIDATE", "AGGREGATE", "FILTER", "ROUTE", "COMPOSE", "FETCH"}
priority_map == {"CORRECTNESS", "PERFORMANCE", "MEMORY", "LATENCY", "THROUGHPUT"}
strategy_map == {"ABORT", "RETRY", "FALLBACK", "DEFAULT"}

\* The while loop over `, input` of the goal, left at `, ->`
RECURSIVE goal_inputs(_, _)
goal_inputs(p, inputs) ==
    IF match(p, {"COMMA"})
    THEN IF match(advance_pos(p), {"ARROW"}) THEN Ok(advance_pos(p), inputs)
         ELSE then(parse_expression(advance_pos(p)),
                   LAMBDA e : goal_inputs(e.pos, Append(inputs, e.val)))
    ELSE Ok(p, inputs)

\* The while loop over `, output` of the goal
RECURSIVE goal_outputs(_, _)
goal_outputs(p, outputs) ==
    IF match(p, {"COMMA"})
    THEN then(parse_expression(advance_pos(p)),
              LAMBDA e : goal_outputs(e.pos, Append(outputs, e.val)))
    ELSE Ok(p, outputs)

\* GOAL type: inputs -> outputs
intent_goal(p) ==
    then(expect(p, {"GOAL"}),
      LAMBDA goal : then(expect(goal.pos, goal_type_map),
        LAMBDA goal_type : then(expect(goal_type.pos, {"COLON"}),
          LAMBDA colon : then(parse_expression(colon.pos),
            LAMBDA first : then(goal_inputs(first.pos, <<first.val>>),
              LAMBDA inputs : then(expect(inputs.pos, {"ARROW"}),
                LAMBDA arrow : then(parse_expression(arrow.pos),
                  LAMBDA out : then(goal_outputs(out.pos, <<out.val>>),
                    LAMBDA outputs :
                      Ok(outputs.pos,
                         [goal_type |-> goal_type.val.type,
                          goal_spec |-> GoalSpec(inputs.val, outputs.val,
                                                 goal_type.val)])))))))))

\* The while loop over `> priority`
RECURSIVE priority_tail(_, _)
priority_tail(p, priorities) ==
    IF match(p, {"GT"})
    THEN then(expect(advance_pos(p), priority_map),
              LAMBDA t : priority_tail(t.pos, Append(priorities, t.val.type)))
    ELSE Ok(p, priorities)

\* PRIORITY (optional)
intent_priorities(p) ==
    IF match(p, {"PRIORITY"})
    THEN then(expect(advance_pos(p), priority_map),
              LAMBDA t : priority_tail(t.pos, <<t.val.type>>))
    ELSE Ok(p, <<>>)

\* ON_FAILURE (optional): the strategy and its reference
intent_failure(p) ==
    IF match(p, {"ON_FAILURE"})
    THEN then(expect(advance_pos(p), strategy_map),
              LAMBDA s : IF s.val.type \in {"FALLBACK", "DEFAULT"}
                         THEN then(parse_expression(s.pos),
                                   LAMBDA ref : Ok(ref.pos, <<Some(s.val.type), ref.val>>))
                         ELSE Ok(s.pos, <<Some(s.val.type), None>>))
    ELSE Ok(p, <<None, None>>)

\* An INTENT block parser that returns without reading ENDINTENT
parse_intent_open(p) ==
    then(expect(p, {"INTENT"}),
      LAMBDA token : then(intent_goal(token.pos),
        LAMBDA goal : then(intent_priorities(goal.pos),
          LAMBDA priorities : then(intent_failure(priorities.pos),
            LAMBDA failure : Ok(failure.pos,
                                IntentBlock(goal.val.goal_type, goal.val.goal_spec,
                                            priorities.val, failure.val[1],
                                            failure.val[2], token.val))))))

parse_intent_block(p) ==
    then(expect(p, {"INTENT"}),
      LAMBDA token : then(intent_goal(token.pos),
        LAMBDA goal : then(intent_priorities(goal.pos),
          LAMBDA priorities : then(intent_failure(priorities.pos),
            LAMBDA failure : then(expect(failure.pos, {"ENDINTENT"}),
              LAMBDA e : Ok(e.pos, IntentBlock(goal.val.goal_type, goal.val.goal_spec,
                                               priorities.val, failure.val[1],
                                               failure.val[2], token.val)))))))

ConstraintBlock(constraints, token) ==
    [kind |-> "ConstraintBlock", constraints |-> constraints,
     line |-> token.line, column |-> token.column]
Constraint(constraint_type, expression, token) ==
    [kind |-> "Constraint", constraint_type |-> constraint_type,
     expression |-> expression, line |-> token.line, column |-> token.column]

constraint_type_map == {"REQUIRE", "FORBID", "PREFER", "INVARIANT"}

\* A CONSTRAINT loop that raises on a token that starts no constraint
constraint_turn_strict(p, constraints) ==
    IF current(p).type \in constraint_type_map
    THEN then(parse_expression(advance_pos(p)),
              LAMBDA expr : Step(expr.pos,
                                 Append(constraints,
                                        Constraint(current(p).type, expr.val, current(p))),
                                 {}))
    ELSE expect(p, constraint_type_map)

\* One turn of the while loop of parse_constraint_block, `constraints` so far
constraint_turn(p, constraints) ==
    IF match(p, {"REQUIRE"}) /\ peek_token(p, 1).type = "WITHIN"
    THEN Step(advance_pos(advance_pos(advance_pos(p))),
              Append(constraints,
                     Constraint("REQUIRE",
                                Literal([str |-> current(advance_pos(advance_pos(p))).value],
                                        "duration",
                                        current(advance_pos(advance_pos(advance_pos(p))))),
                                current(advance_pos(advance_pos(advance_pos(p)))))),
              {advance_pos(advance_pos(p))})
    ELSE IF current(p).type \in constraint_type_map
    THEN then(parse_expression(advance_pos(p)),
              LAMBDA expr : Step(expr.pos,
                                 Append(constraints,
                                        Constraint(current(p).type, expr.val, current(p))),
                                 {}))
    ELSE Step(advance_pos(p), constraints, {p})

FlowBlock(nodes, edges, token) ==
    [kind |-> "FlowBlock", nodes |-> nodes, edges |-> edges,
     line |-> token.line, column |-> token.column]
FlowNode(node_id, op_type, params, custom_op, token) ==
    [kind |-> "FlowNode", node_id |-> node_id, op_type |-> op_type, params |-> params,
     custom_op |-> custom_op, line |-> token.line, column |-> token.column]
NodeParam(name, value, token) ==
    [kind |-> "NodeParam", name |-> name, value |-> value,
     line |-> token.line, column |-> token.column]
FlowEdge(source_, target, condition, token) ==
    [kind |-> "FlowEdge", source |-> source_, target |-> target, condition |-> condition,
     line |-> token.line, column |-> token.column]

op_type_map ==
    {"MAP", "FILTER", "REDUCE", "TRANSFORM", "BRANCH", "MERGE", "SPLIT", "JOIN", "RACE",
     "FETCH", "STORE", "CALL", "EMIT", "SUBSCRIBE", "VALIDATE", "SANITIZE", "AUTHORIZE"}

parse_node_param(p) ==
    then(expect(p, {"IDENTIFIER"}),
         LAMBDA name : then(expect(name.pos, {"ASSIGN"}),
             LAMBDA assign : then(parse_expression(assign.pos),
                 LAMBDA value : Ok(value.pos, NodeParam(name.val.value, value.val, name.val)))))

\* The while loop over the parameters between ( and ) of a node
RECURSIVE node_params(_, _)
node_params(p, params) ==
    IF match(p, {"RPAREN"}) THEN Ok(p, params)
    ELSE then(parse_node_param(p),
              LAMBDA param : node_params(
                  IF match(param.pos, {"COMMA"}) THEN advance_pos(param.pos) ELSE param.pos,
                  Append(params, param.val)))

\* The operation of a node: a custom @reference (run as CALL) or an operation keyword
node_operation(p) ==
    IF match(p, {"EXTERNAL_REF"})
    THEN Ok(advance_pos(p), [op_type |-> "CALL", custom_op |-> Some(current(p).value)])
    ELSE then(expect(p, op_type_map),
              LAMBDA t : Ok(t.pos, [op_type |-> t.val.type, custom_op |-> None]))

\* The optional ( ... ) of a node
node_param_list(p) ==
    IF match(p, {"LPAREN"})
    THEN then(node_params(advance_pos(p), <<>>),
              LAMBDA ps : then(expect(ps.pos, {"RPAREN"}), LAMBDA rp : Ok(rp.pos, ps.val)))
    ELSE Ok(p, <<>>)

parse_flow_node(p) ==
    then(expect(p, {"NODE"}),
      LAMBDA token : then(expect(token.pos, {"IDENTIFIER"}),
        LAMBDA node_id : then(expect(node_id.pos, {"COLON"}),
          LAMBDA colon : then(node_operation(colon.pos),
            LAMBDA op : then(node_param_list(op.pos),
              LAMBDA params : Ok(params.pos,
                                 FlowNode(node_id.val.value, op.val.op_type, params.val,
                                          op.val.custom_op, token.val)))))))

parse_flow_edge(p) ==
    then(expect(p, {"EDGE"}),
      LAMBDA token : then(parse_expression(token.pos),
        LAMBDA src : then(expect(src.pos, {"ARROW"}),
          LAMBDA arrow : then(parse_expression(arrow.pos),
            LAMBDA target :
              IF match(target.pos, {"WHEN"})
              THEN then(parse_expression(advance_pos(target.pos)),
                        LAMBDA condition : Ok(condition.pos,
                                              FlowEdge(src.val, target.val, condition.val,
                                                       token.val)))
              ELSE Ok(target.pos, FlowEdge(src.val, target.val, None, token.val))))))

\* One turn of the while loop of parse_flow_block
flow_turn(p, flow) ==
    IF match(p, {"NODE"})
    THEN then(parse_flow_node(p),
              LAMBDA node : Step(node.pos, [flow EXCEPT !.nodes = Append(@, node.val)], {}))
    ELSE IF match(p, {"EDGE"})
    THEN then(parse_flow_edge(p),
              LAMBDA edge : Step(edge.pos, [flow EXCEPT !.edges = Append(@, edge.val)], {}))
    ELSE Step(advance_pos(p), flow, {p})

ExecutionBlock(settings, token) ==
    [kind |-> "ExecutionBlock", parallel |-> settings.parallel, target |-> settings.target,
     memory |-> settings.memory, memory_limit |-> settings.memory_limit,
     isolation |-> settings.isolation, cache |-> settings.cache,
     cache_size |-> settings.cache_size, line |-> token.line, column |-> token.column]

\* The locals of parse_execution_block before its loop
execution_defaults ==
    [parallel |-> FALSE, target |-> "ANY", memory |-> "UNBOUNDED", memory_limit |-> None,
     isolation |-> "NONE", cache |-> "NONE", cache_size |-> None]

target_map == {"ANY", "CPU", "GPU", "WASM", "NATIVE"}
memory_map == {"BOUNDED", "UNBOUNDED", "STACK_ONLY"}
isolation_map == {"NONE", "THREAD", "PROCESS", "CONTAINER"}
cache_map == {"NONE", "LRU", "TTL"}

\* cache_size = int(self.advance().value), the NUMBER token at p
cache_size_at(p, settings, v) ==
    IF v.ok THEN Step(advance_pos(p), [settings EXCEPT !.cache_size = Some(v.val)], {})
    ELSE Raise(advance_pos(p), PyError(v.exc, current(p)))

\* One turn of the while loop of parse_execution_block
execution_turn(p, settings) ==
    CASE match(p, {"PARALLEL"}) ->
           then(expect(advance_pos(p), {"BOOLEAN"}),
                LAMBDA b : Step(b.pos, [settings EXCEPT !.parallel = (b.val.value = "true")], {}))
      [] match(p, {"TARGET"}) ->
           then(expect(advance_pos(p), target_map),
                LAMBDA t : Step(t.pos, [settings EXCEPT !.target = t.val.type], {}))
      [] match(p, {"MEMORY"}) ->
           then(expect(advance_pos(p), memory_map),
                LAMBDA m : IF m.val.type = "BOUNDED" /\ match(m.pos, {"NUMBER"})
                           THEN Step(advance_pos(m.pos),
                                     [settings EXCEPT !.memory = m.val.type,
                                                      !.memory_limit = Some(current(m.pos).value)],
                                     {})
                           ELSE Step(m.pos, [settings EXCEPT !.memory = m.val.type], {}))
      [] match(p, {"ISOLATION"}) ->
           then(expect(advance_pos(p), isolation_map),
                LAMBDA i : Step(i.pos, [settings EXCEPT !.isolation = i.val.type], {}))
      [] match(p, {"CACHE"}) ->
           then(expect(advance_pos(p), cache_map),
                LAMBDA c : IF c.val.type \in {"LRU", "TTL"} /\ match(c.pos, {"NUMBER"})
                           THEN cache_size_at(c.pos, [settings EXCEPT !.cache = c.val.type],
                                              py_int(current(c.pos).value))
                           ELSE Step(c.pos, [settings EXCEPT !.cache = c.val.type], {}))
      [] OTHER -> Step(advance_pos(p), settings, {p})

VerifyBlock(entries, token) ==
    [kind |-> "VerifyBlock", entries |-> entries, line |-> token.line, column |-> token.column]
VerifyEntry(verify_type, expression, test_ref, token) ==
    [kind |-> "VerifyEntry", verify_type |-> verify_type, expression |-> expression,
     test_ref |-> test_ref, line |-> token.line, column |-> token.column]

verify_type_map == {"ASSERT", "PROPERTY", "INVARIANT", "POSTCONDITION", "TEST"}

\* A turn of the VERIFY loop that takes TEST without its reference
verify_turn_bare_test(p, entries) ==
    IF current(p).type \in verify_type_map
    THEN IF current(p).type = "TEST"
         THEN Step(advance_pos(p),
                   Append(entries, VerifyEntry("TEST", None, None, current(p))), {})
         ELSE then(parse_expression(advance_pos(p)),
                   LAMBDA expr : Step(expr.pos,
                                      Append(entries, VerifyEntry(current(p).type, expr.val,
                                                                  None, current(p))),
                                      {}))
    ELSE Step(advance_pos(p), entries, {p})

\* One turn of the while loop of parse_verify_block
verify_turn(p, entries) ==
    IF current(p).type \in verify_type_map
    THEN IF current(p).type = "TEST"
         THEN then(expect(advance_pos(p), {"EXTERNAL_REF"}),
                   LAMBDA ref : Step(ref.pos,
                                     Append(entries, VerifyEntry("TEST", None,
                                                                 Some(ref.val.value),
                                                                 current(p))),
                                     {}))
         ELSE then(parse_expression(advance_pos(p)),
                   LAMBDA expr : Step(expr.pos,
                                      Append(entries, VerifyEntry(current(p).type, expr.val,
                                                                  None, current(p))),
                                      {}))
    ELSE Step(advance_pos(p), entries, {p})

\* An INPUT loop that skips a token that starts no entry
input_turn_skipping(p, entries) ==
    IF match(p, {"IDENTIFIER"})
    THEN then(parse_input_entry(p), LAMBDA e : Step(e.pos, Append(entries, e.val), {}))
    ELSE Step(advance_pos(p), entries, {p})

\* One turn of the while loops of parse_meta_block, parse_input_block and
\* parse_output_block: an entry, appended
meta_turn(p, entries) ==
    then(parse_meta_entry(p), LAMBDA e : Step(e.pos, Append(entries, e.val), e.loose))
input_turn(p, entries) ==
    then(parse_input_entry(p), LAMBDA e : Step(e.pos, Append(entries, e.val), {}))
output_turn(p, entries) ==
    then(parse_output_entry(p), LAMBDA e : Step(e.pos, Append(entries, e.val), {}))

VaisUnit(b) ==
    [kind |-> "VaisUnit", unit |-> b.unit, meta |-> b.meta, input |-> b.input,
     output |-> b.output, intent |-> b.intent, constraint |-> b.constraint,
     flow |-> b.flow, execution |-> b.execution, verify |-> b.verify,
     line |-> b.unit.line, column |-> b.unit.column]

(***************************************************************************)
(* The pipeline on one source text: Lexer(source).tokenize(), then         *)
(* Parser(tokens), then parse_expression() (what the precedence tests of   *)
(* the front end run).                                                     *)
(***************************************************************************)
BlockNames == <<"unit", "meta", "input", "output", "intent",
                "constraint", "flow", "execution", "verify">>
BlockSet == {BlockNames[i] : i \in 1..Len(BlockNames)}

NoBlocks == [b \in BlockSet |-> None]

\* One pipeline instance is all there is
Alone == peer = None

\* No Validator is constructed yet
ValidatorIdle ==
    /\ validator = None
    /\ unit = None
    /\ vpc = "none"
    /\ vexc = None
    /\ hash_order = <<>>
    /\ calls = <<>>

\* No Parser is constructed yet
ParserIdle ==
    /\ p_tokens = <<>>
    /\ p_pos = 0
    /\ ppc = "none"
    /\ blocks = NoBlocks
    /\ acc = None
    /\ result = None
    /\ perr = None
    /\ loose = {}
    /\ bend = [b \in BlockSet |-> 0]

LexAlphabet == {" ", "\n", "#", "\"", "\\", "/", "1", ".", "s", "a", "@", "-", ">", "$"}

RECURSIVE Strs(_)
Strs(n) ==
    IF n = 0 THEN {""}
    ELSE LET S == Strs(n - 1) IN S \cup {s \o ch : s \in S, ch \in LexAlphabet}

SampleSources ==
    {"a or b and c", "a OR b AND c", "a + b * c", "x >= 1.5s", "\"a\\n\" 'b'",
     "V1.0 10KB 5ms", "2h 1sK 1.5msGB"}

\* Lexer.__init__
LexerNew(text) ==
    /\ returned = <<>>
    /\ source = text
    /\ pos = 0
    /\ line = 1
    /\ column = 1
    /\ tokens = <<>>
    /\ lpc = "loop"
    /\ lexc = None

Init ==
    /\ \E text \in Strs(MaxSrcLen) \cup SampleSources : LexerNew(text)
    /\ ParserIdle
    /\ ValidatorIdle
    /\ Alone

without_newlines(ts) == SelectSeq(ts, LAMBDA t : t.type # "NEWLINE")

\* Parser.__init__ on the tokens tokenize returned
ParserNew ==
    /\ lpc = "returned"
    /\ ppc = "none"
    /\ p_tokens' = without_newlines(tokens)
    /\ p_pos' = 0
    /\ ppc' = "expression"
    /\ UNCHANGED <<peer, lexvars, blocks, acc, result, perr, loose, bend, valvars>>

\* Parser.parse_expression(), called on the new Parser
ParseExpression ==
    /\ ppc = "expression"
    /\ LET r == parse_expression(p_pos)
       IN  /\ p_pos' = r.pos
           /\ IF r.ok
              THEN ppc' = "returned" /\ result' = r.val /\ UNCHANGED perr
              ELSE ppc' = "raised" /\ perr' = r.err /\ UNCHANGED result
    /\ UNCHANGED <<peer, lexvars, p_tokens, blocks, acc, loose, bend, valvars>>

Next == tokenize \/ ParserNew \/ ParseExpression

Spec == Init /\ [][Next]_vars

(***************************************************************************)
(* Parser(tokens).parse() on a token sequence that ends with EOF.  The     *)
(* token sequences are two documents, as tokenize gives them without their *)
(* NEWLINE tokens, and every sequence one edit away from them: cut short   *)
(* before EOF, a token dropped, a token put in, a token put in place of    *)
(* another.                                                                *)
(***************************************************************************)
RichDocument ==
    <<<<"UNIT", "UNIT">>, <<"FUNCTION", "FUNCTION">>, <<"IDENTIFIER", "a">>,
      <<"DOT", ".">>, <<"IDENTIFIER", "b">>, <<"VERSION", "V1.0.0">>, <<"META", "META">>,
      <<"DOMAIN", "DOMAIN">>, <<"IDENTIFIER", "a">>, <<"DOT", ".">>, <<"IDENTIFIER", "b">>,
      <<"RETRY", "RETRY">>, <<"NUMBER", "3">>, <<"ENDMETA", "ENDMETA">>,
      <<"INPUT", "INPUT">>, <<"IDENTIFIER", "x">>, <<"COLON", ":">>, <<"INT", "INT">>,
      <<"LBRACKET", "[">>, <<"IDENTIFIER", "x">>, <<"GT", ">">>, <<"NUMBER", "0">>,
      <<"RBRACKET", "]">>, <<"ENDINPUT", "ENDINPUT">>, <<"OUTPUT", "OUTPUT">>,
      <<"IDENTIFIER", "y">>, <<"COLON", ":">>, <<"ARRAY", "ARRAY">>, <<"LT", "<">>,
      <<"INT", "INT">>, <<"GT", ">">>, <<"ENDOUTPUT", "ENDOUTPUT">>,
      <<"INTENT", "INTENT">>, <<"GOAL", "GOAL">>, <<"TRANSFORM", "TRANSFORM">>,
      <<"COLON", ":">>, <<"IDENTIFIER", "x">>, <<"ARROW", "->">>, <<"IDENTIFIER", "y">>,
      <<"PRIORITY", "PRIORITY">>, <<"CORRECTNESS", "CORRECTNESS">>, <<"GT", ">">>,
      <<"LATENCY", "LATENCY">>, <<"ON_FAILURE", "ON_FAILURE">>, <<"DEFAULT", "DEFAULT">>,
      <<"NUMBER", "0">>, <<"ENDINTENT", "ENDINTENT">>, <<"CONSTRAINT", "CONSTRAINT">>,
      <<"REQUIRE", "REQUIRE">>, <<"WITHIN", "WITHIN">>, <<"NUMBER", "5s">>,
      <<"FORBID", "FORBID">>, <<"IDENTIFIER", "x">>, <<"EQ", "==">>, <<"FLOAT", "1.5">>,
      <<"ENDCONSTRAINT", "ENDCONSTRAINT">>, <<"FLOW", "FLOW">>, <<"NODE", "NODE">>,
      <<"IDENTIFIER", "n">>, <<"COLON", ":">>, <<"MAP", "MAP">>, <<"LPAREN", "(">>,
      <<"IDENTIFIER", "f">>, <<"ASSIGN", "=">>, <<"IDENTIFIER", "x">>, <<"RPAREN", ")">>,
      <<"EDGE", "EDGE">>, <<"INPUT", "INPUT">>, <<"DOT", ".">>, <<"IDENTIFIER", "x">>,
      <<"ARROW", "->">>, <<"IDENTIFIER", "n">>, <<"WHEN", "WHEN">>, <<"IDENTIFIER", "x">>,
      <<"ENDFLOW", "ENDFLOW">>, <<"EXECUTION", "EXECUTION">>, <<"PARALLEL", "PARALLEL">>,
      <<"BOOLEAN", "true">>, <<"CACHE", "CACHE">>, <<"LRU", "LRU">>, <<"NUMBER", "5">>,
      <<"ENDEXECUTION", "ENDEXECUTION">>, <<"VERIFY", "VERIFY">>, <<"ASSERT", "ASSERT">>,
      <<"IDENTIFIER", "x">>, <<"TEST", "TEST">>, <<"EXTERNAL_REF", "@t">>,
      <<"ENDVERIFY", "ENDVERIFY">>, <<"END", "END">>, <<"EOF", "">>>>

MinimalDocument ==
    <<<<"UNIT", "UNIT">>, <<"MODULE", "MODULE">>, <<"IDENTIFIER", "m">>,
      <<"META", "META">>, <<"ENDMETA", "ENDMETA">>, <<"INPUT", "INPUT">>,
      <<"ENDINPUT", "ENDINPUT">>, <<"OUTPUT", "OUTPUT">>, <<"ENDOUTPUT", "ENDOUTPUT">>,
      <<"INTENT", "INTENT">>, <<"GOAL", "GOAL">>, <<"FETCH", "FETCH">>, <<"COLON", ":">>,
      <<"IDENTIFIER", "a">>, <<"ARROW", "->">>, <<"IDENTIFIER", "b">>,
      <<"ENDINTENT", "ENDINTENT">>, <<"CONSTRAINT", "CONSTRAINT">>,
      <<"ENDCONSTRAINT", "ENDCONSTRAINT">>, <<"FLOW", "FLOW">>, <<"ENDFLOW", "ENDFLOW">>,
      <<"EXECUTION", "EXECUTION">>, <<"ENDEXECUTION", "ENDEXECUTION">>,
      <<"VERIFY", "VERIFY">>, <<"ENDVERIFY", "ENDVERIFY">>, <<"END", "END">>,
      <<"EOF", "">>>>

\* The tokens put in by an edit
EditTokens ==
    {<<"UNKNOWN", "$">>, <<"IDENTIFIER", "z">>, <<"NUMBER", "5KB">>, <<"FLOAT", "1.5s">>,
     <<"NEWLINE", "\n">>, <<"UNIT", "UNIT">>, <<"META", "META">>, <<"INPUT", "INPUT">>,
     <<"OUTPUT", "OUTPUT">>, <<"INTENT", "INTENT">>, <<"CONSTRAINT", "CONSTRAINT">>,
     <<"FLOW", "FLOW">>, <<"EXECUTION", "EXECUTION">>, <<"VERIFY", "VERIFY">>,
     <<"END", "END">>, <<"ENDFLOW", "ENDFLOW">>, <<"WITHIN", "WITHIN">>,
     <<"COMMA", ",">>}

\* Tokens per source line in the positions given to a token sequence
TokensPerLine == 8

\* Token i of a sequence, at a line and column of its own
token_at(i, tv) ==
    make_token(tv[1], tv[2], 1 + ((i - 1) \div TokensPerLine),
               1 + 3 * ((i - 1) % TokensPerLine))

Positioned(d) == [i \in 1..Len(d) |-> token_at(i, d[i])]

Edits(d) ==
    LET n == Len(d) - 1     \* the tokens before EOF
    IN  {d}
        \cup {SubSeq(d, 1, k) \o <<d[n + 1]>> : k \in 0..(n - 1)}
        \cup {SubSeq(d, 1, k - 1) \o SubSeq(d, k + 1, n + 1) : k \in 1..n}
        \cup {SubSeq(d, 1, k) \o <<t>> \o SubSeq(d, k + 1, n + 1) :
                 k \in 0..n, t \in EditTokens}
        \cup {SubSeq(d, 1, k - 1) \o <<t>> \o SubSeq(d, k + 1, n + 1) :
                 k \in 1..n, t \in EditTokens}

\* A document whose META entry and whose REQUIRE WITHIN stand right before an
\* end keyword, and whose blocks go on after it
EarlyEndDocument ==
    <<<<"UNIT", "UNIT">>, <<"MODULE", "MODULE">>, <<"IDENTIFIER", "m">>,
      <<"META", "META">>, <<"DOMAIN", "DOMAIN">>, <<"ENDMETA", "ENDMETA">>,
      <<"DETERMINISM", "DETERMINISM">>, <<"BOOLEAN", "true">>, <<"ENDMETA", "ENDMETA">>,
      <<"INPUT", "INPUT">>, <<"ENDINPUT", "ENDINPUT">>, <<"OUTPUT", "OUTPUT">>,
      <<"ENDOUTPUT", "ENDOUTPUT">>, <<"INTENT", "INTENT">>, <<"GOAL", "GOAL">>,
      <<"FETCH", "FETCH">>, <<"COLON", ":">>, <<"IDENTIFIER", "a">>, <<"ARROW", "->">>,
      <<"IDENTIFIER", "b">>, <<"ENDINTENT", "ENDINTENT">>, <<"CONSTRAINT", "CONSTRAINT">>,
      <<"REQUIRE", "REQUIRE">>, <<"WITHIN", "WITHIN">>,
      <<"ENDCONSTRAINT", "ENDCONSTRAINT">>, <<"FORBID", "FORBID">>, <<"IDENTIFIER", "x">>,
      <<"ENDCONSTRAINT", "ENDCONSTRAINT">>, <<"FLOW", "FLOW">>, <<"ENDFLOW", "ENDFLOW">>,
      <<"EXECUTION", "EXECUTION">>, <<"ENDEXECUTION", "ENDEXECUTION">>,
      <<"VERIFY", "VERIFY">>, <<"ENDVERIFY", "ENDVERIFY">>, <<"END", "END">>,
      <<"EOF", "">>>>

Documents == Edits(RichDocument) \cup Edits(MinimalDocument) \cup {EarlyEndDocument}

\* No Lexer is part of the run
LexerIdle ==
    /\ returned = <<>>
    /\ source = ""
    /\ pos = 0
    /\ line = 1
    /\ column = 1
    /\ tokens = <<>>
    /\ lpc = "none"
    /\ lexc = None

\* Parser.__init__ on the tokens of a document; parse is about to run
ParseInit ==
    /\ LexerIdle
    /\ \E d \in Documents : p_tokens = without_newlines(Positioned(d))
    /\ p_pos = 0
    /\ ppc = "unit"
    /\ blocks = NoBlocks
    /\ acc = None
    /\ result = None
    /\ perr = None
    /\ loose = {}
    /\ bend = [b \in BlockSet |-> 0]
    /\ ValidatorIdle
    /\ Alone

\* A block parser that runs in one piece: it returned r.val or raised r.err
BlockCall(b, r, next) ==
    /\ ppc = b
    /\ p_pos' = r.pos
    /\ IF r.ok
       THEN /\ blocks' = [blocks EXCEPT ![b] = r.val]
            /\ bend' = [bend EXCEPT ![b] = r.pos - 1]
            /\ ppc' = next
            /\ UNCHANGED perr
       ELSE /\ ppc' = "raised"
            /\ perr' = r.err
            /\ UNCHANGED <<blocks, bend>>
    /\ UNCHANGED <<peer, lexvars, p_tokens, acc, result, loose, valvars>>

\* token = self.expect(KEYWORD) and the locals a block parser sets before its loop
LoopOpen(b, keyword, locals) ==
    /\ ppc = b
    /\ IF match(p_pos, {keyword})
       THEN /\ acc' = [kind |-> b, token |-> current(p_pos), val |-> locals]
            /\ ppc' = b \o "_head"
            /\ UNCHANGED perr
       ELSE /\ ppc' = "raised"
            /\ perr' = expect(p_pos, {keyword}).err
            /\ UNCHANGED acc
    /\ p_pos' = expect(p_pos, {keyword}).pos
    /\ UNCHANGED <<peer, lexvars, p_tokens, blocks, result, loose, bend, valvars>>

\* while not self.match(END_KEYWORD): the loop goes on, or it ends and
\* self.expect(END_KEYWORD) consumes the keyword and the block is returned
LoopHead(b, end_keyword, block, next) ==
    /\ ppc = b \o "_head"
    /\ IF match(p_pos, {end_keyword})
       THEN /\ p_pos' = expect(p_pos, {end_keyword}).pos
            /\ blocks' = [blocks EXCEPT ![b] = block]
            /\ bend' = [bend EXCEPT ![b] = p_pos]
            /\ acc' = None
            /\ ppc' = next
       ELSE /\ ppc' = b \o "_body"
            /\ UNCHANGED <<p_pos, blocks, bend, acc>>
    /\ UNCHANGED <<peer, lexvars, p_tokens, result, perr, loose, valvars>>

\* One turn of the body of a block parser's loop, which gave r
LoopBody(b, r) ==
    /\ ppc = b \o "_body"
    /\ p_pos' = r.pos
    /\ IF r.ok
       THEN /\ acc' = [acc EXCEPT !.val = r.val]
            /\ loose' = loose \cup r.loose
            /\ ppc' = b \o "_head"
            /\ UNCHANGED perr
       ELSE /\ ppc' = "raised"
            /\ perr' = r.err
            /\ UNCHANGED <<acc, loose>>
    /\ UNCHANGED <<peer, lexvars, p_tokens, blocks, result, bend, valvars>>

ParseUnitBlock == BlockCall("unit", parse_unit_block(p_pos), "meta")

MetaOpen == LoopOpen("meta", "META", <<>>)
MetaLoop == LoopHead("meta", "ENDMETA", MetaBlock(acc.val, acc.token), "input")
MetaEntryTurn == LoopBody("meta", meta_turn(p_pos, acc.val))

InputOpen == LoopOpen("input", "INPUT", <<>>)
InputLoop == LoopHead("input", "ENDINPUT", InputBlock(acc.val, acc.token), "output")
InputEntryTurn == LoopBody("input", input_turn(p_pos, acc.val))

OutputOpen == LoopOpen("output", "OUTPUT", <<>>)
OutputLoop == LoopHead("output", "ENDOUTPUT", OutputBlock(acc.val, acc.token), "intent")
OutputEntryTurn == LoopBody("output", output_turn(p_pos, acc.val))

ParseIntentBlock == BlockCall("intent", parse_intent_block(p_pos), "constraint")

ConstraintOpen == LoopOpen("constraint", "CONSTRAINT", <<>>)
ConstraintLoop ==
    LoopHead("constraint", "ENDCONSTRAINT", ConstraintBlock(acc.val, acc.token), "flow")
ConstraintTurn == LoopBody("constraint", constraint_turn(p_pos, acc.val))

FlowOpen == LoopOpen("flow", "FLOW", [nodes |-> <<>>, edges |-> <<>>])
FlowLoop ==
    LoopHead("flow", "ENDFLOW", FlowBlock(acc.val.nodes, acc.val.edges, acc.token),
             "execution")
FlowTurn == LoopBody("flow", flow_turn(p_pos, acc.val))

ExecutionOpen == LoopOpen("execution", "EXECUTION", execution_defaults)
ExecutionLoop ==
    LoopHead("execution", "ENDEXECUTION", ExecutionBlock(acc.val, acc.token), "verify")
ExecutionTurn == LoopBody("execution", execution_turn(p_pos, acc.val))

VerifyOpen == LoopOpen("verify", "VERIFY", <<>>)
VerifyLoop == LoopHead("verify", "ENDVERIFY", VerifyBlock(acc.val, acc.token), "end")
VerifyTurn == LoopBody("verify", verify_turn(p_pos, acc.val))

\* self.expect(TokenType.END); return VaisUnit(...)
ParseEnd ==
    /\ ppc = "end"
    /\ p_pos' = expect(p_pos, {"END"}).pos
    /\ IF match(p_pos, {"END"})
       THEN ppc' = "returned" /\ result' = VaisUnit(blocks) /\ UNCHANGED perr
       ELSE ppc' = "raised" /\ perr' = expect(p_pos, {"END"}).err /\ UNCHANGED result
    /\ UNCHANGED <<peer, lexvars, p_tokens, blocks, acc, loose, bend, valvars>>

parse ==
    \/ ParseUnitBlock
    \/ MetaOpen \/ MetaLoop \/ MetaEntryTurn
    \/ InputOpen \/ InputLoop \/ InputEntryTurn
    \/ OutputOpen \/ OutputLoop \/ OutputEntryTurn
    \/ ParseIntentBlock
    \/ ConstraintOpen \/ ConstraintLoop \/ ConstraintTurn
    \/ FlowOpen \/ FlowLoop \/ FlowTurn
    \/ ExecutionOpen \/ ExecutionLoop \/ ExecutionTurn
    \/ VerifyOpen \/ VerifyLoop \/ VerifyTurn
    \/ ParseEnd

ParseSpec == ParseInit /\ [][parse]_vars

\* parse runs to its end: no statement of it waits for ever
FairParseSpec == ParseSpec /\ WF_vars(parse)

(***************************************************************************)
(* Properties of the lexer and of the expression pipeline                  *)
(***************************************************************************)

\* C1: Lexer.tokenize never raises an exception, whatever the input string;
\* a string or regex literal still open at end of input, a trailing
\* backslash included, is closed silently.
C1_TokenizeNeverRaises == lpc # "raised"

\* A string or regex literal is open at end of input and tokenize returned
C1_OpenLiteralClosed ==
    /\ lpc = "returned"
    /\ \E i \in 1..Len(tokens) :
          /\ tokens[i].type \in {"STRING_LITERAL", "REGEX"}
          /\ Len(source) > 0
          /\ SubSeq(source, Len(source), Len(source)) \notin {"\"", "/", "'"}

IsEOF(t) == t.type = "EOF"

\* C2: the first tokenize call on a fresh Lexer ends by returning a token
\* sequence whose last token is EOF and that holds no other EOF token: once
\* the main loop is left, tokenize has returned such a sequence.
C2_TokenizeReturnsOneEOF ==
    lpc # "loop" =>
        /\ lpc = "returned"
        /\ Len(tokens) > 0
        /\ IsEOF(tokens[Len(tokens)])
        /\ \A i \in 1..(Len(tokens) - 1) : ~IsEOF(tokens[i])

IsBinary(e, op) == e.kind = "BinaryOp" /\ e.operator = op

\* C10 (as written): for the text `a or b and c`, tokenizing and parsing the
\* expression gives a root `or` whose right child is `and`.
C10_LowercaseOrAnd ==
    (source = "a or b and c" /\ ppc \in {"returned", "raised"}) =>
        /\ ppc = "returned"
        /\ IsBinary(result, "or")
        /\ IsBinary(result.right, "and")

\* C10 (amended): the logical operators are the upper-case keywords; for the
\* text `a OR b AND c` the root is the binary OR and its right child the
\* binary AND, over the identifiers a, b and c.
C10_UppercaseOrAnd ==
    (source = "a OR b AND c" /\ ppc \in {"returned", "raised"}) =>
        /\ ppc = "returned"
        /\ IsBinary(result, "OR")
        /\ result.left.kind = "Identifier" /\ result.left.name = "a"
        /\ IsBinary(result.right, "AND")
        /\ result.right.left.name = "b"
        /\ result.right.right.name = "c"
        /\ current(p_pos).type = "EOF"

C10_UppercaseParsed == source = "a OR b AND c" /\ ppc = "returned"

(***************************************************************************)
(* Properties of Parser.parse                                              *)
(***************************************************************************)
Terminated == ppc \in {"returned", "raised"}

\* C3: Parser.parse terminates on every token sequence that ends with EOF:
\* it returns a root or raises, and never loops for ever, also when the end
\* keyword of a CONSTRAINT, FLOW, EXECUTION or VERIFY block is missing.
C3_ParseTerminates == <>Terminated

\* C4: whenever parse raises, what it raises is a ParseError with the line
\* and column of the offending token, the token parse stopped at; no other
\* kind of exception escapes, the conversion of NUMBER and FLOAT texts
\* included.
C4_OnlyParseErrorEscapes ==
    ppc = "raised" =>
        /\ perr.kind = "ParseError"
        /\ perr.token = current(p_pos)
        /\ perr.line = perr.token.line
        /\ perr.column = perr.token.column

OpenKeywords ==
    [unit |-> "UNIT", meta |-> "META", input |-> "INPUT", output |-> "OUTPUT",
     intent |-> "INTENT", constraint |-> "CONSTRAINT", flow |-> "FLOW",
     execution |-> "EXECUTION", verify |-> "VERIFY"]

OpenKeywordSet == {OpenKeywords[b] : b \in BlockSet}

EndKeywords ==
    [meta |-> "ENDMETA", input |-> "ENDINPUT", output |-> "ENDOUTPUT",
     intent |-> "ENDINTENT", constraint |-> "ENDCONSTRAINT", flow |-> "ENDFLOW",
     execution |-> "ENDEXECUTION", verify |-> "ENDVERIFY"]

\* The index in p_tokens of the token a node took its line and column from
TokenIndex(node) ==
    CHOOSE i \in 1..Len(p_tokens) :
        p_tokens[i].line = node.line /\ p_tokens[i].column = node.column

\* The blocks parsed so far are the first ones of the fixed order, and in a
\* returned root each block starts at its own open keyword, after the block
\* before it, with END as the last token consumed.
BlocksInOrder ==
    /\ \A i \in 2..Len(BlockNames) :
          blocks[BlockNames[i]].kind # "None" => blocks[BlockNames[i - 1]].kind # "None"
    /\ ppc = "returned" =>
          /\ \A i \in 1..Len(BlockNames) :
                /\ p_tokens[TokenIndex(result[BlockNames[i]])].type
                       = OpenKeywords[BlockNames[i]]
                /\ i > 1 => TokenIndex(result[BlockNames[i - 1]])
                                < TokenIndex(result[BlockNames[i]])
          /\ p_tokens[p_pos].type = "END"
          /\ TokenIndex(result.verify) < p_pos

\* parse is about to read the open keyword of a block, or END, and the token
\* there is the open keyword of another block: it raises ParseError at it
WrongBlockRaises ==
    (/\ ppc \in BlockSet \cup {"end"}
     /\ current(p_pos).type \in OpenKeywordSet
     /\ ppc \in BlockSet => current(p_pos).type # OpenKeywords[ppc])
    => /\ ppc' = "raised"
       /\ perr'.kind = "ParseError"
       /\ perr'.line = current(p_pos).line
       /\ perr'.column = current(p_pos).column
       /\ p_pos' = p_pos
       /\ result' = None

\* C5: parse accepts the nine blocks only in the order UNIT, META, INPUT,
\* OUTPUT, INTENT, CONSTRAINT, FLOW, EXECUTION, VERIFY, then END; the open
\* keyword of a block where another block is expected makes parse raise
\* ParseError with the line and column of that keyword.
C5_FixedBlockOrder == []BlocksInOrder /\ [][WrongBlockRaises]_vars

\* parse raised at a block's open keyword that stands where another is expected
C5_RaisedAtWrongKeyword ==
    /\ ppc = "raised"
    /\ perr.kind = "ParseError"
    /\ perr.message.text = "Expected"
    /\ perr.message.got \in OpenKeywordSet
    /\ perr.message.expected \subseteq OpenKeywordSet \cup {"END"}
    /\ blocks.intent.kind # "None"

BlockKinds ==
    [unit |-> "UnitBlock", meta |-> "MetaBlock", input |-> "InputBlock",
     output |-> "OutputBlock", intent |-> "IntentBlock",
     constraint |-> "ConstraintBlock", flow |-> "FlowBlock",
     execution |-> "ExecutionBlock", verify |-> "VerifyBlock"]

\* C6: whenever parse returns, the nine block slots of the root are non-null,
\* and every block a block parser returned was consumed up to and including
\* its own end keyword (the UNIT header, which has none, up to its name or
\* version): no partly parsed block is returned.
C6_BlocksComplete ==
    /\ \A b \in DOMAIN EndKeywords :
          blocks[b].kind # "None" =>
              /\ p_tokens[bend[b] + 1].type = EndKeywords[b]
              /\ TokenIndex(blocks[b]) <= bend[b]
              /\ bend[b] < p_pos
    /\ blocks.unit.kind # "None" =>
          p_tokens[bend.unit + 1].type \in {"IDENTIFIER", "VERSION"}
    /\ ppc = "returned" =>
          \A b \in BlockSet : result[b].kind = BlockKinds[b] /\ result[b] = blocks[b]

\* parse returned a root whose blocks have entries
C6_ReturnedRoot ==
    /\ ppc = "returned"
    /\ Len(result.flow.nodes) > 0
    /\ Len(result.meta.entries) > 0
    /\ Len(result.verify.entries) > 0

IsUnknown(i) == p_tokens[i].type = "UNKNOWN"

LenientBlocks == {"constraint", "flow", "execution", "verify"}

\* Token i lies in block b, after its open keyword and before its end keyword
InsideBlock(i, b) == TokenIndex(result[b]) < i /\ i < bend[b] + 1

Skips ==
    /\ p_pos' = advance_pos(p_pos)
    /\ acc' = [acc EXCEPT !.val = acc.val]
    /\ acc'.val = acc.val
    /\ perr' = perr
    /\ loose' = loose \cup {p_pos}

\* A step of parse that raises ParseError at the current token
RaisesHere ==
    /\ ppc' = "raised"
    /\ perr'.kind = "ParseError"
    /\ perr'.token = current(p_pos)
    /\ p_pos' = p_pos

StartsNoStatement(b) ==
    CASE b = "constraint" -> current(p_pos).type \notin constraint_type_map
      [] b = "flow" -> current(p_pos).type \notin {"NODE", "EDGE"}
      [] b = "execution" ->
           current(p_pos).type \notin {"PARALLEL", "TARGET", "MEMORY", "ISOLATION", "CACHE"}
      [] b = "verify" -> current(p_pos).type \notin verify_type_map
      [] b \in {"input", "output"} -> current(p_pos).type # "IDENTIFIER"

\* At statement position of block b with a token that starts no statement
AtStray(b) == ppc = b \o "_body" /\ StartsNoStatement(b)

\* C8 (as written): FLOW, EXECUTION and VERIFY skip a token that starts no
\* statement; CONSTRAINT, INPUT and OUTPUT raise ParseError on it.
C8_ConstraintStrict ==
    [][/\ \A b \in {"flow", "execution", "verify"} :
             AtStray(b) => (Skips /\ ppc' = b \o "_head")
       /\ \A b \in {"constraint", "input", "output"} : AtStray(b) => RaisesHere]_vars

\* C8 (amended): CONSTRAINT, FLOW, EXECUTION and VERIFY skip a token that
\* starts no statement at statement position and go on with the block; only
\* INPUT and OUTPUT raise ParseError on a token that starts no entry.
C8_SkippingByBlockKind ==
    [][/\ \A b \in LenientBlocks : AtStray(b) => (Skips /\ ppc' = b \o "_head")
       /\ \A b \in {"input", "output"} : AtStray(b) => RaisesHere]_vars

\* parse skipped a token that starts no constraint inside CONSTRAINT
C8_SkippedInConstraint ==
    /\ ppc = "constraint_head"
    /\ p_pos > 0
    /\ (p_pos - 1) \in loose
    /\ p_tokens[p_pos].type \notin constraint_type_map \cup {"WITHIN"}

(***************************************************************************)
(* parse_expression on the token sequences of expressions without          *)
(* parentheses                                                             *)
(***************************************************************************)
MaxExprLen == 5

ExprTokens ==
    {<<"IDENTIFIER", "a">>, <<"OR", "OR">>, <<"AND", "AND">>, <<"EQ", "==">>,
     <<"LT", "<">>, <<"PLUS", "+">>, <<"MINUS", "-">>, <<"STAR", "*">>,
     <<"NOT", "NOT">>}

RECURSIVE TokenSeqs(_)
TokenSeqs(n) ==
    IF n = 0 THEN {<<>>}
    ELSE LET S == TokenSeqs(n - 1) IN S \cup {Append(s, t) : s \in S, t \in ExprTokens}

\* a + b * c, as tokenize gives it
SumOfProduct ==
    <<<<"IDENTIFIER", "a">>, <<"PLUS", "+">>, <<"IDENTIFIER", "b">>, <<"STAR", "*">>,
      <<"IDENTIFIER", "c">>>>

ExprInit ==
    /\ LexerIdle
    /\ \E s \in TokenSeqs(MaxExprLen) \cup {SumOfProduct} :
          p_tokens = without_newlines(Positioned(Append(s, <<"EOF", "">>)))
    /\ p_pos = 0
    /\ ppc = "expression"
    /\ blocks = NoBlocks
    /\ acc = None
    /\ result = None
    /\ perr = None
    /\ loose = {}
    /\ bend = [b \in BlockSet |-> 0]
    /\ ValidatorIdle
    /\ Alone

ExprSpec == ExprInit /\ [][ParseExpression]_vars

\* The precedence level of a binary operator, by the text the node keeps
precedence(operator) ==
    CASE operator = "OR" -> 1
      [] operator = "AND" -> 2
      [] operator \in {"==", "!=", "<", ">", "<=", ">=", "IN", "MATCH"} -> 3
      [] operator \in {"+", "-"} -> 4
      [] operator \in {"*", "/"} -> 5

IsBinaryOp(e) == e.kind = "BinaryOp"

\* Every BinaryOp of the tree has a left child of at least its precedence and
\* a right child of higher precedence, and no UnaryOp has a BinaryOp operand
RECURSIVE RespectsPrecedence(_)
RespectsPrecedence(e) ==
    CASE e.kind = "BinaryOp" ->
           /\ IsBinaryOp(e.left) => precedence(e.left.operator) >= precedence(e.operator)
           /\ IsBinaryOp(e.right) => precedence(e.right.operator) > precedence(e.operator)
           /\ RespectsPrecedence(e.left)
           /\ RespectsPrecedence(e.right)
      [] e.kind = "UnaryOp" -> ~IsBinaryOp(e.operand) /\ RespectsPrecedence(e.operand)
      [] OTHER -> TRUE

TokenTexts == [i \in 1..Len(p_tokens) |-> p_tokens[i].value]

\* C9: for every expression without parentheses the tree parse_expression
\* builds respects OR < AND < comparison < additive < multiplicative < unary
\* < primary and groups the operators of one level to the left; `a + b * c`
\* gives a root `+` whose right child is `*`.
C9_PrecedenceRespected ==
    ppc = "returned" =>
        /\ RespectsPrecedence(result)
        /\ TokenTexts = <<"a", "+", "b", "*", "c", "">> =>
              /\ IsBinary(result, "+")
              /\ result.left.kind = "Identifier" /\ result.left.name = "a"
              /\ IsBinary(result.right, "*")
              /\ result.right.left.name = "b"
              /\ result.right.right.name = "c"

\* parse_expression returned a tree of two binary operators of one level
C9_TwoOperatorsParsed ==
    /\ ppc = "returned"
    /\ IsBinaryOp(result)
    /\ IsBinaryOp(result.left)
    /\ precedence(result.left.operator) = precedence(result.operator)
    /\ current(p_pos).type = "EOF"

(***************************************************************************)
(* The validator (src/parser/validator.py).  A dict is a sequence of       *)
(* <<key, value>> pairs in insertion order.  An Optional enum field holds   *)
(* the member's name, or NoEnum where Python holds None; every other        *)
(* Optional field holds the record None where Python holds None.  Each      *)
(* method is an operator from the Validator's fields v to its fields after  *)
(* the call.                                                                *)
(***************************************************************************)
NoEnum == "None"

\* `not x` for an Optional node
absent(x) == x.kind = "None"

\* `key in d` for a dict
has_key(d, key) == \E i \in 1..Len(d) : d[i][1] = key

\* The fields Validator.__init__ sets
Validator ==
    [kind |-> "Validator", errors |-> <<>>, input_fields |-> <<>>, output_fields |-> <<>>,
     flow_nodes |-> <<>>, flow_edges |-> <<>>, external_refs |-> {}]

ValidationError(code, message, severity, node) ==
    [kind |-> "ValidationError", code |-> code, message |-> message,
     severity |-> severity, line |-> node.line, column |-> node.column, node |-> node]

add_error(v, code, message, node, severity) ==
    [v EXCEPT !.errors = Append(@, ValidationError(code, message, severity, node))]

\* The nine `if not unit.<slot>` of _validate_blocks_exist, in their order
block_checks ==
    <<<<"unit", "E1001", "UNIT">>, <<"meta", "E1002", "META">>,
      <<"input", "E1003", "INPUT">>, <<"output", "E1004", "OUTPUT">>,
      <<"intent", "E1005", "INTENT">>, <<"constraint", "E1006", "CONSTRAINT">>,
      <<"flow", "E1007", "FLOW">>, <<"execution", "E1008", "EXECUTION">>,
      <<"verify", "E1009", "VERIFY">>>>

RECURSIVE blocks_exist_from(_, _, _)
blocks_exist_from(v, u, i) ==
    IF i > Len(block_checks) THEN v
    ELSE blocks_exist_from(
             IF absent(u[block_checks[i][1]])
             THEN add_error(v, block_checks[i][2],
                            "Missing " \o block_checks[i][3] \o " block", u, "ERROR")
             ELSE v,
             u, i + 1)


\* A presence check that stops at the first absent block
validate_first_missing_block(v, u) ==
    IF \A i \in 1..Len(block_checks) : ~absent(u[block_checks[i][1]]) THEN v
    ELSE LET i == CHOOSE k \in 1..Len(block_checks) :
                      /\ absent(u[block_checks[k][1]])
                      /\ \A j \in 1..(k - 1) : ~absent(u[block_checks[j][1]])
         IN  add_error(v, block_checks[i][2], "Missing " \o block_checks[i][3] \o " block",
                       u, "ERROR")

validate_blocks_exist(v, u) == blocks_exist_from(v, u, 1)


\* A collection of the INPUT fields that reports a repeated name once only
RECURSIVE collect_input_once(_, _, _)
collect_input_once(v, entries, i) ==
    IF i > Len(entries) THEN v
    ELSE collect_input_once(
             [(IF has_key(v.input_fields, entries[i].name)
                  /\ \A k \in 1..Len(v.errors) :
                         v.errors[k].message # "Duplicate input field: " \o entries[i].name
               THEN add_error(v, "E2001", "Duplicate input field: " \o entries[i].name,
                              entries[i], "ERROR")
               ELSE v)
              EXCEPT !.input_fields = dict_set(@, entries[i].name, entries[i].type_node)],
             entries, i + 1)

\* for entry in unit.input.entries
RECURSIVE collect_input(_, _, _)
collect_input(v, entries, i) ==
    IF i > Len(entries) THEN v
    ELSE collect_input(
             [(IF has_key(v.input_fields, entries[i].name)
               THEN add_error(v, "E2001", "Duplicate input field: " \o entries[i].name,
                              entries[i], "ERROR")
               ELSE v)
              EXCEPT !.input_fields = dict_set(@, entries[i].name, entries[i].type_node)],
             entries, i + 1)

\* A collection of the OUTPUT fields that reports repeats and records nothing
RECURSIVE collect_output_unrecorded(_, _, _)
collect_output_unrecorded(v, entries, i) ==
    IF i > Len(entries) THEN v
    ELSE collect_output_unrecorded(
             IF \E j \in 1..(i - 1) : entries[j].name = entries[i].name
             THEN add_error(v, "E2002", "Duplicate output field: " \o entries[i].name,
                            entries[i], "ERROR")
             ELSE v,
             entries, i + 1)

\* for entry in unit.output.entries
RECURSIVE collect_output(_, _, _)
collect_output(v, entries, i) ==
    IF i > Len(entries) THEN v
    ELSE collect_output(
             [(IF has_key(v.output_fields, entries[i].name)
               THEN add_error(v, "E2002", "Duplicate output field: " \o entries[i].name,
                              entries[i], "ERROR")
               ELSE v)
              EXCEPT !.output_fields = dict_set(@, entries[i].name, entries[i].type_node)],
             entries, i + 1)

\* for node in unit.flow.nodes
RECURSIVE collect_nodes(_, _, _)
collect_nodes(v, nodes, i) ==
    IF i > Len(nodes) THEN v
    ELSE collect_nodes(
             [(IF has_key(v.flow_nodes, nodes[i].node_id)
               THEN add_error(v, "E4001", "Duplicate flow node: " \o nodes[i].node_id,
                              nodes[i], "ERROR")
               ELSE v)
              EXCEPT !.flow_nodes = dict_set(@, nodes[i].node_id, nodes[i])],
             nodes, i + 1)

collect_flow(v, flow) ==
    [collect_nodes(v, flow.nodes, 1) EXCEPT !.flow_edges = flow.edges]

collect_fields(v, u) ==
    LET a == IF absent(u.input) THEN v ELSE collect_input(v, u.input.entries, 1)
        b == IF absent(u.output) THEN a ELSE collect_output(a, u.output.entries, 1)
    IN  IF absent(u.flow) THEN b ELSE collect_flow(b, u.flow)

\* required_meta looking for the key in the first entry only
RECURSIVE required_meta_first_entry(_, _, _, _)
required_meta_first_entry(v, meta, order, i) ==
    IF i > Len(order) THEN v
    ELSE required_meta_first_entry(
             IF Len(meta.entries) > 0 /\ meta.entries[1].key = order[i]
             THEN v
             ELSE add_error(v, "E2010", "Missing required META entry: " \o order[i],
                            meta, "WARNING"),
             meta, order, i + 1)

\* for key in required_keys, a set: `order` is the order its iteration takes
RECURSIVE required_meta(_, _, _, _)
required_meta(v, meta, order, i) ==
    IF i > Len(order) THEN v
    ELSE required_meta(
             IF \E j \in 1..Len(meta.entries) : meta.entries[j].key = order[i]
             THEN v
             ELSE add_error(v, "E2010", "Missing required META entry: " \o order[i],
                            meta, "WARNING"),
             meta, order, i + 1)

\* isinstance(value, bool) for the value of a META entry
is_bool(value) == "bool" \in DOMAIN value

\* for entry in meta.entries: DETERMINISM must be boolean
RECURSIVE determinism_entries(_, _, _)
determinism_entries(v, entries, i) ==
    IF i > Len(entries) THEN v
    ELSE determinism_entries(
             IF entries[i].key = "DETERMINISM" /\ ~is_bool(entries[i].value)
             THEN add_error(v, "E2011", "DETERMINISM must be boolean (true/false)",
                            entries[i], "ERROR")
             ELSE v,
             entries, i + 1)

validate_meta(v, meta, order) ==
    IF absent(meta) THEN v
    ELSE determinism_entries(required_meta(v, meta, order, 1), meta.entries, 1)

\* The types _validate_type visits below one type node
type_children(t) ==
    CASE t.kind = "ArrayType" -> <<t.element_type>>
      [] t.kind = "MapType" -> <<t.key_type, t.value_type>>
      [] t.kind = "StructType" -> [i \in 1..Len(t.fields) |-> t.fields[i][2]]
      [] t.kind = "OptionalType" -> <<t.inner_type>>
      [] t.kind = "UnionType" -> t.types
      [] OTHER -> <<>>

\* _validate_type on the types still to visit: it reports nothing
RECURSIVE validate_type(_, _)
validate_type(v, pending) ==
    IF Len(pending) = 0 THEN v
    ELSE validate_type(v, type_children(pending[1]) \o Tail(pending))

\* _validate_input and _validate_output: for entry in block.entries
validate_entries(v, block) ==
    IF absent(block) THEN v
    ELSE validate_type(v, [i \in 1..Len(block.entries) |-> block.entries[i].type_node])

validate_input(v, input_block) == validate_entries(v, input_block)
validate_output(v, output_block) == validate_entries(v, output_block)

validate_intent(v, intent) ==
    IF absent(intent) THEN v
    ELSE LET a == IF intent.goal_type = NoEnum
                  THEN add_error(v, "E3001", "Missing GOAL type in INTENT", intent, "ERROR")
                  ELSE v
             b == IF ~absent(intent.goal_spec) /\ Len(intent.goal_spec.inputs) = 0
                  THEN add_error(a, "E3002", "GOAL must have at least one input",
                                 intent, "ERROR")
                  ELSE a
         IN  IF ~absent(intent.goal_spec) /\ Len(intent.goal_spec.outputs) = 0
             THEN add_error(b, "E3003", "GOAL must have at least one output", intent, "ERROR")
             ELSE b

\* _validate_expression_refs on one expression, without its recursive calls
expression_ref(v, expr, parent) ==
    CASE expr.kind = "FieldAccess" ->
           IF expr.base.kind = "Identifier" /\ expr.base.name = "input"
              /\ ~has_key(v.input_fields, expr.field_name)
           THEN add_error(v, "E5001", "Unknown input field: " \o expr.field_name,
                          parent, "ERROR")
           ELSE IF expr.base.kind = "Identifier" /\ expr.base.name = "output"
                   /\ ~has_key(v.output_fields, expr.field_name)
           THEN add_error(v, "E5002", "Unknown output field: " \o expr.field_name,
                          parent, "ERROR")
           ELSE v
      [] expr.kind = "ExternalRef" ->
           [v EXCEPT !.external_refs = @ \cup {expr.ref}]
      [] OTHER -> v

\* The expressions _validate_expression_refs calls itself on: the operands
\* of a BinaryOp, and of nothing else
ref_children(expr) ==
    IF expr.kind = "BinaryOp" THEN <<expr.left, expr.right>> ELSE <<>>

\* _validate_expression_refs on the expressions still to visit, depth first
RECURSIVE validate_expression_refs(_, _, _)
validate_expression_refs(v, pending, parent) ==
    IF Len(pending) = 0 THEN v
    ELSE validate_expression_refs(expression_ref(v, pending[1], parent),
                                  ref_children(pending[1]) \o Tail(pending), parent)

\* for c in constraint.constraints
RECURSIVE constraint_refs(_, _, _)
constraint_refs(v, constraints, i) ==
    IF i > Len(constraints) THEN v
    ELSE constraint_refs(
             validate_expression_refs(v, <<constraints[i].expression>>, constraints[i]),
             constraints, i + 1)

validate_constraint(v, constraint) ==
    IF absent(constraint) THEN v ELSE constraint_refs(v, constraint.constraints, 1)

\* required_params of _validate_flow_node
required_params(op_type) ==
    CASE op_type \in {"MAP", "REDUCE"} -> <<"fn">>
      [] op_type = "FILTER" -> <<"condition">>
      [] op_type = "FETCH" -> <<"source">>
      [] op_type = "STORE" -> <<"target">>
      [] OTHER -> <<>>

validate_flow_node(v, node) ==
    IF Len(required_params(node.op_type)) = 1
       /\ \A i \in 1..Len(node.params) : node.params[i].name # required_params(node.op_type)[1]
    THEN add_error(v, "E4010",
                   "Node '" \o node.node_id \o "' missing required param: "
                       \o required_params(node.op_type)[1],
                   node, "WARNING")
    ELSE v

\* _get_node_ref: the pair (base, port), port None for a bare identifier,
\* or None
get_node_ref(expr) ==
    CASE expr.kind = "Identifier" -> [kind |-> "ref", base |-> expr.name, port |-> None]
      [] expr.kind = "FieldAccess" ->
           IF expr.base.kind = "Identifier"
           THEN [kind |-> "ref", base |-> expr.base.name, port |-> Some(expr.field_name)]
           ELSE None
      [] OTHER -> None

\* `port and port not in fields`
unknown_port(port, fields) ==
    port.kind = "Some" /\ port.value # "" /\ ~has_key(fields, port.value)

\* One endpoint of an edge: base == block is the INPUT (source) or OUTPUT
\* (target) branch, any other base must be a flow node
edge_endpoint(v, edge, ref, block, fields, field_code, field_text, node_code, node_text) ==
    IF absent(ref) THEN v
    ELSE IF ref.base = block
    THEN IF unknown_port(ref.port, fields)
         THEN add_error(v, field_code, field_text \o ref.port.value, edge, "ERROR")
         ELSE v
    ELSE IF ~has_key(v.flow_nodes, ref.base)
    THEN add_error(v, node_code, node_text \o ref.base, edge, "ERROR")
    ELSE v

\* An edge check that takes INPUT and OUTPUT as blocks at both ends
validate_flow_edge_alike(v, edge) ==
    LET s == get_node_ref(edge.source)
        t == get_node_ref(edge.target)
        a == IF ~absent(s) /\ s.base = "OUTPUT"
             THEN edge_endpoint(v, edge, s, "OUTPUT", v.output_fields,
                                "E4020", "Unknown output field: ",
                                "E4021", "Unknown source node: ")
             ELSE edge_endpoint(v, edge, s, "INPUT", v.input_fields,
                                "E4020", "Unknown input field: ",
                                "E4021", "Unknown source node: ")
    IN  IF ~absent(t) /\ t.base = "INPUT"
        THEN edge_endpoint(a, edge, t, "INPUT", v.input_fields,
                           "E4022", "Unknown input field: ",
                           "E4023", "Unknown target node: ")
        ELSE edge_endpoint(a, edge, t, "OUTPUT", v.output_fields,
                           "E4022", "Unknown output field: ",
                           "E4023", "Unknown target node: ")

validate_flow_edge(v, edge) ==
    LET a == edge_endpoint(v, edge, get_node_ref(edge.source), "INPUT", v.input_fields,
                           "E4020", "Unknown input field: ",
                           "E4021", "Unknown source node: ")
    IN  edge_endpoint(a, edge, get_node_ref(edge.target), "OUTPUT", v.output_fields,
                      "E4022", "Unknown output field: ",
                      "E4023", "Unknown target node: ")

\* The nodes connected as a source only
connected_nodes_sources(flow) ==
    {get_node_ref(flow.edges[i].source).base :
        i \in {j \in 1..Len(flow.edges) : ~absent(get_node_ref(flow.edges[j].source))}}
    \ {"INPUT", "OUTPUT"}

\* connected_nodes of _validate_flow_connectivity
connected_nodes(flow) ==
    ({get_node_ref(flow.edges[i].source).base :
         i \in {j \in 1..Len(flow.edges) : ~absent(get_node_ref(flow.edges[j].source))}}
     \cup
     {get_node_ref(flow.edges[i].target).base :
         i \in {j \in 1..Len(flow.edges) : ~absent(get_node_ref(flow.edges[j].target))}})
    \ {"INPUT", "OUTPUT"}

\* for node_id, node in self.flow_nodes.items()
RECURSIVE unconnected_nodes(_, _, _)
unconnected_nodes(v, connected, i) ==
    IF i > Len(v.flow_nodes) THEN v
    ELSE unconnected_nodes(
             IF v.flow_nodes[i][1] \notin connected
             THEN add_error(v, "E4030",
                            "Node '" \o v.flow_nodes[i][1] \o "' is not connected to any edge",
                            v.flow_nodes[i][2], "WARNING")
             ELSE v,
             connected, i + 1)

validate_flow_connectivity(v, flow) ==
    IF Len(flow.nodes) = 0 THEN v ELSE unconnected_nodes(v, connected_nodes(flow), 1)

\* for node in flow.nodes
RECURSIVE flow_nodes_from(_, _, _)
flow_nodes_from(v, nodes, i) ==
    IF i > Len(nodes) THEN v
    ELSE flow_nodes_from(validate_flow_node(v, nodes[i]), nodes, i + 1)

\* for edge in flow.edges
RECURSIVE flow_edges_from(_, _, _)
flow_edges_from(v, edges, i) ==
    IF i > Len(edges) THEN v
    ELSE flow_edges_from(validate_flow_edge(v, edges[i]), edges, i + 1)

\* A FLOW pass that checks connectivity before the edges
validate_flow_connectivity_first(v, flow) ==
    IF absent(flow) THEN v
    ELSE flow_edges_from(
             validate_flow_connectivity(flow_nodes_from(v, flow.nodes, 1), flow),
             flow.edges, 1)

validate_flow(v, flow) ==
    IF absent(flow) THEN v
    ELSE validate_flow_connectivity(
             flow_edges_from(flow_nodes_from(v, flow.nodes, 1), flow.edges, 1), flow)

\* `not s` for an Optional[str]
no_text(s) == s.kind = "None" \/ s.value = ""

validate_execution(v, execution) ==
    IF ~absent(execution) /\ execution.memory = "BOUNDED" /\ no_text(execution.memory_limit)
    THEN add_error(v, "E6001", "BOUNDED memory requires a limit (e.g., 256MB)",
                   execution, "WARNING")
    ELSE v

\* What a validator method gave: the Validator's fields after it, and the
\* exception it raised, if it raised
Done(v) == [ok |-> TRUE, v |-> v]
Raised(v, exc) == [ok |-> FALSE, v |-> v, exc |-> exc]

\* One entry of _validate_verify
verify_entry(v, entry) ==
    IF entry.verify_type = "TEST"
    THEN IF no_text(entry.test_ref)
         THEN Done(add_error(v, "E7001", "TEST entry requires a reference", entry, "ERROR"))
         ELSE Done([v EXCEPT !.external_refs = @ \cup {entry.test_ref.value}])
    ELSE IF absent(entry.expression)
    THEN IF entry.verify_type = NoEnum
         THEN Raised(v, "AttributeError")     \* None.value
         ELSE Done(add_error(v, "E7002",
                             entry.verify_type \o " entry requires an expression",
                             entry, "ERROR"))
    ELSE Done(v)

\* for entry in verify.entries, as far as it gets
RECURSIVE verify_entries(_, _, _)
verify_entries(r, entries, i) ==
    IF i > Len(entries) \/ ~r.ok THEN r
    ELSE verify_entries(verify_entry(r.v, entries[i]), entries, i + 1)

validate_verify(v, verify) ==
    IF absent(verify) THEN Done(v) ELSE verify_entries(Done(v), verify.entries, 1)

\* for ref in refs: self._validate_expression_refs(ref, unit.intent)
RECURSIVE intent_refs(_, _, _, _)
intent_refs(v, refs, i, intent) ==
    IF i > Len(refs) THEN v
    ELSE intent_refs(validate_expression_refs(v, <<refs[i]>>, intent), refs, i + 1, intent)

validate_cross_references(v, u) ==
    IF ~absent(u.intent) /\ ~absent(u.intent.goal_spec)
    THEN intent_refs(intent_refs(v, u.intent.goal_spec.inputs, 1, u.intent),
                     u.intent.goal_spec.outputs, 1, u.intent)
    ELSE v

(***************************************************************************)
(* Validator().validate(unit) on the trees parse returns for documents     *)
(* that differ in one block from a document without findings, and on the   *)
(* trees that differ from those in the block slots and optional fields     *)
(* that are None.                                                          *)
(***************************************************************************)
Word(w) == <<w, w>>
Name(n) == <<"IDENTIFIER", n>>
Dotted(a, b) == <<Name(a), <<"DOT", ".">>, Name(b)>>

\* The entries of an INPUT or OUTPUT block with these names: the type of an
\* entry goes by its place in the block
EntryTypes ==
    <<<<Word("INT32")>>, <<Word("STRING")>>,
      <<Word("ARRAY"), <<"LT", "<">>, Word("BOOL"), <<"GT", ">">>>>>>

RECURSIVE EntryTokens(_, _)
EntryTokens(names, i) ==
    IF i > Len(names) THEN <<>>
    ELSE <<Name(names[i]), <<"COLON", ":">>>> \o EntryTypes[i] \o EntryTokens(names, i + 1)

InputNames == {<<>>, <<"x">>, <<"x", "x">>, <<"x", "y">>, <<"x", "y", "x">>,
               <<"x", "x", "x">>, <<"y", "x", "y">>}
OutputNames == {<<>>, <<"y">>, <<"y", "y">>, <<"x", "y">>, <<"y", "x", "y">>,
                <<"y", "y", "y">>}

\* Expressions that refer to fields, at the top and below an operator, a
\* call and a longer chain
RefExpressions ==
    {Dotted("input", "x"), Dotted("input", "q"), Dotted("output", "y"),
     Dotted("output", "q"),
     Dotted("input", "q") \o <<<<"PLUS", "+">>>> \o Dotted("output", "q"),
     Dotted("input", "x") \o <<<<"AND", "AND">>>> \o Dotted("input", "x")
         \o <<<<"LT", "<">>>> \o Dotted("input", "q"),
     <<Word("NOT")>> \o Dotted("input", "q"),
     <<<<"MINUS", "-">>>> \o Dotted("output", "q"),
     <<Word("LEN"), <<"LPAREN", "(">>>> \o Dotted("input", "q") \o <<<<"RPAREN", ")">>>>,
     Dotted("input", "q") \o <<<<"DOT", ".">>, Name("r")>>,
     <<<<"EXTERNAL_REF", "@e">>>>, <<Name("input")>>}

MetaEntries ==
    {<<>>, <<Word("DOMAIN"), Name("d")>>, <<Word("DETERMINISM"), <<"BOOLEAN", "true">>>>,
     <<Word("DOMAIN"), Name("d"), Word("DETERMINISM"), <<"NUMBER", "5">>>>,
     <<Word("DETERMINISM"), Name("d"), Word("DETERMINISM"), <<"BOOLEAN", "false">>>>}

\* The nodes of a FLOW block with these ids: a node's operation goes by its
\* place in the block
NodeOperations ==
    <<<<Word("MAP"), <<"LPAREN", "(">>, Name("fn"), <<"ASSIGN", "=">>, Name("f"),
        <<"RPAREN", ")">>>>,
      <<Word("FILTER")>>, <<Word("TRANSFORM")>>>>

RECURSIVE NodeTokens(_, _)
NodeTokens(ids, i) ==
    IF i > Len(ids) THEN <<>>
    ELSE <<Word("NODE"), Name(ids[i]), <<"COLON", ":">>>> \o NodeOperations[i]
             \o NodeTokens(ids, i + 1)

NodeIds == {<<>>, <<"n">>, <<"n", "n">>, <<"n", "k">>, <<"n", "k", "n">>}

\* The endpoints of an edge
Endpoints ==
    {<<Name("n")>>, <<Name("k")>>, <<Word("INPUT"), <<"DOT", ".">>, Name("x")>>,
     <<Word("INPUT"), <<"DOT", ".">>, Name("q")>>,
     <<Word("OUTPUT"), <<"DOT", ".">>, Name("y")>>,
     <<Word("OUTPUT"), <<"DOT", ".">>, Name("q")>>,
     <<Word("INPUT")>>, <<Word("OUTPUT")>>, Dotted("n", "p"),
     Dotted("n", "p") \o <<<<"DOT", ".">>, Name("r")>>, <<<<"NUMBER", "1">>>>}

EdgeTokens(e) == <<Word("EDGE")>> \o e[1] \o <<<<"ARROW", "->">>>> \o e[2]

EdgeLists ==
    {<<>>}
    \cup {EdgeTokens(<<s, t>>) : s \in Endpoints, t \in Endpoints}
    \cup {EdgeTokens(<<<<Word("INPUT"), <<"DOT", ".">>, Name("x")>>, <<Name("n")>>>>)
              \o EdgeTokens(<<<<Name(a)>>, <<Word("OUTPUT"), <<"DOT", ".">>, Name("y")>>>>) :
          a \in {"n", "k"}}

ExecutionSettings ==
    {<<>>, <<Word("MEMORY"), Word("BOUNDED")>>,
     <<Word("MEMORY"), Word("BOUNDED"), <<"NUMBER", "256MB">>>>,
     <<Word("MEMORY"), Word("BOUNDED"), <<"NUMBER", "256MB">>, Word("MEMORY"),
       Word("BOUNDED")>>,
     <<Word("CACHE"), Word("LRU"), <<"NUMBER", "5">>, Word("MEMORY"), Word("BOUNDED"),
       <<"NUMBER", "256MB">>, Word("CACHE"), Word("NONE"), Word("MEMORY"),
       Word("STACK_ONLY")>>}

VerifyEntries ==
    {<<>>, <<Word("ASSERT"), Name("x")>>, <<Word("TEST"), <<"EXTERNAL_REF", "@t">>>>,
     <<Word("ASSERT"), Name("x"), Word("TEST"), <<"EXTERNAL_REF", "@t">>,
       Word("INVARIANT")>> \o Dotted("output", "q")}

\* The blocks of a document, as token sequences between the block keywords
Document(d) ==
    <<Word("UNIT"), Word("MODULE"), Name("m")>>
    \o <<Word("META")>> \o d.meta \o <<Word("ENDMETA")>>
    \o <<Word("INPUT")>> \o EntryTokens(d.input, 1) \o <<Word("ENDINPUT")>>
    \o <<Word("OUTPUT")>> \o EntryTokens(d.output, 1) \o <<Word("ENDOUTPUT")>>
    \o <<Word("INTENT"), Word("GOAL"), Word("TRANSFORM"), <<"COLON", ":">>>>
    \o d.goal_in \o <<<<"ARROW", "->">>>> \o d.goal_out \o <<Word("ENDINTENT")>>
    \o <<Word("CONSTRAINT")>> \o d.constraint \o <<Word("ENDCONSTRAINT")>>
    \o <<Word("FLOW")>> \o NodeTokens(d.nodes, 1) \o d.edges \o <<Word("ENDFLOW")>>
    \o <<Word("EXECUTION")>> \o d.execution \o <<Word("ENDEXECUTION")>>
    \o <<Word("VERIFY")>> \o d.verify \o <<Word("ENDVERIFY")>>
    \o <<Word("END"), <<"EOF", "">>>>

\* A document validate has nothing to report on
CleanDocument ==
    [meta |-> <<Word("DOMAIN"), Name("d"), Word("DETERMINISM"), <<"BOOLEAN", "true">>>>,
     input |-> <<"x">>, output |-> <<"y">>,
     goal_in |-> Dotted("input", "x"), goal_out |-> Dotted("output", "y"),
     constraint |-> <<Word("REQUIRE")>> \o Dotted("input", "x"),
     nodes |-> <<"n">>,
     edges |-> EdgeTokens(<<<<Word("INPUT"), <<"DOT", ".">>, Name("x")>>, <<Name("n")>>>>)
                   \o EdgeTokens(<<<<Name("n")>>,
                                   <<Word("OUTPUT"), <<"DOT", ".">>, Name("y")>>>>),
     execution |-> <<Word("MEMORY"), Word("BOUNDED"), <<"NUMBER", "256MB">>>>,
     verify |-> <<Word("ASSERT"), Name("x"), Word("TEST"), <<"EXTERNAL_REF", "@t">>>>]

Requires(e) == <<Word("REQUIRE")>> \o e

ValidatedDocuments ==
    {CleanDocument}
    \cup {[CleanDocument EXCEPT !.meta = m] : m \in MetaEntries}
    \cup {[CleanDocument EXCEPT !.input = names] : names \in InputNames}
    \cup {[CleanDocument EXCEPT !.output = names] : names \in OutputNames}
    \cup {[CleanDocument EXCEPT !.goal_in = e] : e \in RefExpressions}
    \cup {[CleanDocument EXCEPT !.goal_out = e] : e \in RefExpressions}
    \cup {[CleanDocument EXCEPT !.constraint = Requires(e)] : e \in RefExpressions}
    \cup {[CleanDocument EXCEPT !.constraint = Requires(e) \o Requires(f),
                                !.goal_in = f, !.goal_out = e] :
             e \in {Dotted("output", "q")}, f \in RefExpressions}
    \cup {[CleanDocument EXCEPT !.nodes = ids, !.edges = es] :
             ids \in NodeIds, es \in EdgeLists}
    \cup {[CleanDocument EXCEPT !.execution = x] : x \in ExecutionSettings}
    \cup {[CleanDocument EXCEPT !.verify = x] : x \in VerifyEntries}
    \cup {[meta |-> <<>>, input |-> <<"x", "x">>, output |-> <<"y", "y">>,
           goal_in |-> Dotted("input", "q"), goal_out |-> Dotted("output", "q"),
           constraint |-> Requires(Dotted("input", "q")), nodes |-> <<"n", "k", "n">>,
           edges |-> EdgeTokens(<<<<Name("z")>>, <<Name("z")>>>>),
           execution |-> <<Word("MEMORY"), Word("BOUNDED")>>,
           verify |-> <<Word("TEST"), <<"EXTERNAL_REF", "@t">>>>]}

\* The tree u with the block slots in `slots` None
without(u, slots) == [f \in DOMAIN u |-> IF f \in slots THEN None ELSE u[f]]

\* The tree u with its optional fields None: the goal and its type, the
\* types of the INPUT entries, the expressions of the constraints, one end
\* of every edge, the expression and reference of every VERIFY entry
unset_fields(u) ==
    [u EXCEPT !.intent.goal_spec = None,
              !.intent.goal_type = NoEnum,
              !.input.entries = [i \in 1..Len(@) |-> [@[i] EXCEPT !.type_node = None]],
              !.constraint.constraints =
                  [i \in 1..Len(@) |-> [@[i] EXCEPT !.expression = None]],
              !.flow.edges =
                  [i \in 1..Len(@) |->
                      IF i % 2 = 1 THEN [@[i] EXCEPT !.source = None]
                      ELSE [@[i] EXCEPT !.target = None]],
              !.verify.entries =
                  [i \in 1..Len(@) |-> [@[i] EXCEPT !.expression = None, !.test_ref = None]]]

\* The tree u with the kind of every VERIFY entry None
unset_kind(u) ==
    [u EXCEPT !.verify.entries = [i \in 1..Len(@) |-> [@[i] EXCEPT !.verify_type = NoEnum]]]

\* The tree u with every field of every VERIFY entry None
unset_verify(u) ==
    [u EXCEPT !.verify.entries =
                  [i \in 1..Len(@) |->
                      [@[i] EXCEPT !.verify_type = NoEnum, !.expression = None,
                                   !.test_ref = None]]]

\* The tree u with the expression and the reference of every VERIFY entry
\* None
unset_refs(u) ==
    [u EXCEPT !.verify.entries =
                  [i \in 1..Len(@) |-> [@[i] EXCEPT !.expression = None, !.test_ref = None]]]

\* The validate calls made on one Validator
MaxCalls == 2

\* The trees validate is called on, r the tree parse returned: the first
\* call on the tree of CleanDocument takes every set of absent slots
Trees(r) ==
    {r, without(r, {"input", "output", "flow"}), unset_fields(r), unset_refs(r)}
    \cup (IF Len(calls) = 0 /\ p_tokens = Positioned(Document(CleanDocument))
          THEN {without(r, slots) : slots \in SUBSET BlockSet}
                   \cup {unset_kind(r), unset_verify(r)}
          ELSE {})

ValidateInit ==
    /\ LexerIdle
    /\ \E d \in ValidatedDocuments : p_tokens = Positioned(Document(d))
    /\ p_pos = 0
    /\ ppc = "unit"
    /\ blocks = NoBlocks
    /\ acc = None
    /\ result = None
    /\ perr = None
    /\ loose = {}
    /\ bend = [b \in BlockSet |-> 0]
    /\ ValidatorIdle
    /\ Alone

\* validator = Validator(), in a process whose sets of strings iterate in
\* one order or the other, the same for as long as the process lives
ValidatorNew ==
    /\ ppc = "returned"
    /\ vpc = "none"
    /\ validator' = Validator
    /\ vpc' = "idle"
    /\ hash_order' \in IF hash_order = <<>>
                       THEN {<<"DOMAIN", "DETERMINISM">>, <<"DETERMINISM", "DOMAIN">>}
                       ELSE {hash_order}
    /\ UNCHANGED <<peer, lexvars, parvars, unit, vexc, calls>>

\* validator.validate(u) is called: self.errors = []
ValidateCall ==
    /\ vpc \in {"idle", "returned", "raised"}
    /\ Len(calls) < MaxCalls
    /\ \E u \in Trees(result) : unit' = u /\ calls' = Append(calls, u)
    /\ validator' = [validator EXCEPT !.errors = <<>>]
    /\ vpc' = "blocks_exist"
    /\ vexc' = None
    /\ UNCHANGED <<peer, lexvars, parvars, hash_order>>

\* One statement of validate, which left the Validator's fields as w
ValidatePass(pass, w, next) ==
    /\ vpc = pass
    /\ validator' = w
    /\ vpc' = next
    /\ UNCHANGED <<peer, lexvars, parvars, unit, vexc, hash_order, calls>>

ValidateBlocksExist ==
    ValidatePass("blocks_exist", validate_blocks_exist(validator, unit), "collect_fields")
\* A field collection that drops from the tree the INPUT entries after the
\* first
CollectFieldsPruning ==
    /\ vpc = "collect_fields"
    /\ validator' = collect_fields(validator, unit)
    /\ vpc' = "meta"
    /\ unit' = IF absent(unit.input) THEN unit
               ELSE [unit EXCEPT !.input.entries = IF Len(@) > 1 THEN <<@[1]>> ELSE @]
    /\ UNCHANGED <<peer, lexvars, parvars, vexc, hash_order, calls>>

CollectFields == ValidatePass("collect_fields", collect_fields(validator, unit), "meta")
ValidateMeta == ValidatePass("meta", validate_meta(validator, unit.meta, hash_order), "input")
ValidateInput == ValidatePass("input", validate_input(validator, unit.input), "output")
ValidateOutput == ValidatePass("output", validate_output(validator, unit.output), "intent")
ValidateIntent ==
    ValidatePass("intent", validate_intent(validator, unit.intent), "constraint")
ValidateConstraint ==
    ValidatePass("constraint", validate_constraint(validator, unit.constraint), "flow")
ValidateFlow == ValidatePass("flow", validate_flow(validator, unit.flow), "execution")
ValidateExecution ==
    ValidatePass("execution", validate_execution(validator, unit.execution), "verify")

\* self._validate_verify(unit.verify), which returns or raises
ValidateVerify ==
    LET r == validate_verify(validator, unit.verify)
    IN  /\ vpc = "verify"
        /\ validator' = r.v
        /\ IF r.ok THEN vpc' = "cross_references" /\ UNCHANGED vexc
           ELSE vpc' = "raised" /\ vexc' = [kind |-> r.exc]
        /\ UNCHANGED <<peer, lexvars, parvars, unit, hash_order, calls>>

\* self._validate_cross_references(unit); return self.errors
ValidateCrossReferences ==
    ValidatePass("cross_references", validate_cross_references(validator, unit), "returned")

\* The passes of validate
passes ==
    \/ ValidateBlocksExist \/ CollectFields
    \/ ValidateMeta \/ ValidateInput \/ ValidateOutput \/ ValidateIntent
    \/ ValidateConstraint \/ ValidateFlow \/ ValidateExecution \/ ValidateVerify
    \/ ValidateCrossReferences

validate == ValidateCall \/ passes

ValidateNext == parse \/ ValidatorNew \/ validate

ValidateSpec == ValidateInit /\ [][ValidateNext]_vars

(***************************************************************************)
(* Properties of Validator.validate                                        *)
(***************************************************************************)
\* The diagnostics with a code, in the order of the list
ErrorsWith(code) == SelectSeq(validator.errors, LAMBDA e : e.code = code)

\* validate runs for the first time on its Validator
Fresh == Len(calls) = 1

StructuralCodes ==
    [unit |-> "E1001", meta |-> "E1002", input |-> "E1003", output |-> "E1004",
     intent |-> "E1005", constraint |-> "E1006", flow |-> "E1007",
     execution |-> "E1008", verify |-> "E1009"]

\* C11: whatever the root, validate returns exactly one structural ERROR
\* (E1001..E1009, one code per block) for each of the nine block slots that
\* is absent and none for a slot that is present.
C11_OneErrorPerAbsentBlock ==
    vpc = "returned" =>
        \A b \in BlockSet :
            /\ Len(ErrorsWith(StructuralCodes[b])) = IF absent(unit[b]) THEN 1 ELSE 0
            /\ \A i \in 1..Len(ErrorsWith(StructuralCodes[b])) :
                   ErrorsWith(StructuralCodes[b])[i].severity = "ERROR"

\* validate returned on a root with several slots absent and others present
C11_SomeBlocksAbsent ==
    /\ vpc = "returned"
    /\ absent(unit.meta) /\ absent(unit.flow) /\ absent(unit.verify)
    /\ ~absent(unit.unit) /\ ~absent(unit.input) /\ ~absent(unit.execution)
    /\ Len(ErrorsWith("E1002")) = 1

\* The entries of an INPUT or OUTPUT block, the nodes of a FLOW block: none
\* when the block is absent
EntriesOf(block) == IF absent(block) THEN <<>> ELSE block.entries
NodesOf(flow) == IF absent(flow) THEN <<>> ELSE flow.nodes

\* The places in a sequence of names where a name occurs again
Repeated(names) == {i \in 1..Len(names) : \E j \in 1..(i - 1) : names[j] = names[i]}

\* The members of a sequence at the places in `places`, in their order
At(items, places) ==
    [k \in 1..Cardinality(places) |->
        items[CHOOSE i \in places : Cardinality({j \in places : j < i}) = k - 1]]

\* Where the nodes or diagnostics of a sequence are
Where(items) == [i \in 1..Len(items) |-> <<items[i].line, items[i].column>>]

EntryNames(block) == [i \in 1..Len(EntriesOf(block)) |-> EntriesOf(block)[i].name]
NodeNames(flow) == [i \in 1..Len(NodesOf(flow)) |-> NodesOf(flow)[i].node_id]

\* C12: duplicates do not make parse fail, and with a fresh validator the
\* E2001 (E2002, E4001) errors are, in order, at the non-first occurrences
\* of the names of the INPUT entries (OUTPUT entries, FLOW nodes): k - 1
\* errors for a name that occurs k times, none for a name that occurs once.
C12_DuplicatesReported ==
    /\ ppc # "raised"
    /\ (Fresh /\ vpc = "returned") =>
          /\ Where(ErrorsWith("E2001"))
                 = Where(At(EntriesOf(unit.input), Repeated(EntryNames(unit.input))))
          /\ Where(ErrorsWith("E2002"))
                 = Where(At(EntriesOf(unit.output), Repeated(EntryNames(unit.output))))
          /\ Where(ErrorsWith("E4001"))
                 = Where(At(NodesOf(unit.flow), Repeated(NodeNames(unit.flow))))
          /\ \A i \in 1..Len(validator.errors) :
                 validator.errors[i].code \in {"E2001", "E2002", "E4001"}
                     => validator.errors[i].severity = "ERROR"

\* A fresh validator returned on a root where one INPUT name occurs three
\* times and one once
C12_NameThreeTimes ==
    /\ Fresh /\ vpc = "returned"
    /\ EntryNames(unit.input) = <<"x", "x", "x">>
    /\ Len(ErrorsWith("E2001")) = 2

\* d[key] of a dict kept as a sequence of pairs
ValueOf(d, key) == d[CHOOSE i \in 1..Len(d) : d[i][1] = key][2]

\* The first place of a name in a sequence of names
FirstPlace(names, name) ==
    CHOOSE i \in 1..Len(names) : names[i] = name /\ \A j \in 1..(i - 1) : names[j] # name

\* validate is past self._collect_fields(unit)
Collected == vpc \notin {"none", "idle", "blocks_exist", "collect_fields"}

\* C13: after field collection the Input-field, Output-field and Flow-node
\* maps hold, for every name declared more than once, the type (the node)
\* of the first occurrence of that name.
C13_FirstOccurrenceKept ==
    Collected =>
        /\ \A i \in Repeated(EntryNames(unit.input)) :
               ValueOf(validator.input_fields, EntryNames(unit.input)[i])
                   = EntriesOf(unit.input)[FirstPlace(EntryNames(unit.input),
                                                      EntryNames(unit.input)[i])].type_node
        /\ \A i \in Repeated(EntryNames(unit.output)) :
               ValueOf(validator.output_fields, EntryNames(unit.output)[i])
                   = EntriesOf(unit.output)[FirstPlace(EntryNames(unit.output),
                                                       EntryNames(unit.output)[i])].type_node
        /\ \A i \in Repeated(NodeNames(unit.flow)) :
               ValueOf(validator.flow_nodes, NodeNames(unit.flow)[i])
                   = NodesOf(unit.flow)[FirstPlace(NodeNames(unit.flow), NodeNames(unit.flow)[i])]

\* The base an edge endpoint names: the name of an identifier, or of the
\* identifier a single field is selected from
BaseOf(expr) ==
    IF expr.kind = "Identifier" THEN {expr.name}
    ELSE IF expr.kind = "FieldAccess" /\ expr.base.kind = "Identifier" THEN {expr.base.name}
    ELSE {}

EdgesOf(flow) == IF absent(flow) THEN <<>> ELSE flow.edges

\* The bases of the edge sources and targets of a FLOW block
EdgeBases(flow) ==
    UNION {BaseOf(EdgesOf(flow)[i].source) \cup BaseOf(EdgesOf(flow)[i].target) :
           i \in 1..Len(EdgesOf(flow))}

\* The E4030 diagnostics on the node id `id`
Disconnected(id) ==
    {i \in 1..Len(validator.errors) :
        validator.errors[i].code = "E4030" /\ validator.errors[i].node.node_id = id}

\* The diagnostics of severity ERROR placed on the node `node`
ErrorsOn(node) ==
    {i \in 1..Len(validator.errors) :
        validator.errors[i].severity = "ERROR" /\ validator.errors[i].node = node}

DeclaredNodes == {NodeNames(unit.flow)[i] : i \in 1..Len(NodeNames(unit.flow))}
DeclaredOutputs == {EntryNames(unit.output)[i] : i \in 1..Len(EntryNames(unit.output))}
DeclaredInputs == {EntryNames(unit.input)[i] : i \in 1..Len(EntryNames(unit.input))}

\* The edge is `x -> OUTPUT.y` with x a declared node and y a declared
\* OUTPUT field
ToDeclaredOutput(edge) ==
    /\ edge.source.kind = "Identifier" /\ edge.source.name \in DeclaredNodes
    /\ edge.target.kind = "FieldAccess" /\ edge.target.base.kind = "Identifier"
    /\ edge.target.base.name = "OUTPUT" /\ edge.target.field_name \in DeclaredOutputs

\* C14: with a fresh validator, validate emits exactly one E4030 WARNING for
\* each distinct declared node id that is the base of no edge source and of
\* no edge target, and none for a node id that is the base of an endpoint;
\* an edge `x -> OUTPUT.y` with y declared leaves x without warning and
\* carries no ERROR.
C14_DisconnectedNodesWarned ==
    (Fresh /\ vpc = "returned") =>
        /\ \A id \in DeclaredNodes :
               Cardinality(Disconnected(id)) = IF id \in EdgeBases(unit.flow) THEN 0 ELSE 1
        /\ \A i \in 1..Len(validator.errors) :
               validator.errors[i].code = "E4030" =>
                   /\ validator.errors[i].severity = "WARNING"
                   /\ validator.errors[i].node.node_id \in DeclaredNodes
        /\ \A i \in 1..Len(EdgesOf(unit.flow)) :
               ToDeclaredOutput(EdgesOf(unit.flow)[i]) =>
                   /\ Disconnected(EdgesOf(unit.flow)[i].source.name) = {}
                   /\ ErrorsOn(EdgesOf(unit.flow)[i]) = {}

\* A fresh validator returned on nodes n and k and the one edge
\* `n -> OUTPUT.y`: k is warned, n is not
C14_OneOfTwoConnected ==
    /\ Fresh /\ vpc = "returned"
    /\ NodeNames(unit.flow) = <<"n", "k">>
    /\ Len(EdgesOf(unit.flow)) = 1 /\ ToDeclaredOutput(EdgesOf(unit.flow)[1])
    /\ EdgesOf(unit.flow)[1].source.name = "n"
    /\ Cardinality(Disconnected("k")) = 1 /\ Disconnected("n") = {}
    /\ Len(ErrorsWith("E4030")) = 1

\* The expressions directly below an expression: the operands of a binary
\* or unary operator, the arguments of a call, the base of a field access
Operands(e) ==
    CASE e.kind = "BinaryOp" -> <<e.left, e.right>>
      [] e.kind = "UnaryOp" -> <<e.operand>>
      [] e.kind = "FunctionCall" -> e.arguments
      [] e.kind = "FieldAccess" -> <<e.base>>
      [] OTHER -> <<>>

\* The expressions in `pending` and all expressions below them
RECURSIVE SubExpressions(_)
SubExpressions(pending) ==
    IF Len(pending) = 0 THEN <<>>
    ELSE <<pending[1]>> \o SubExpressions(Operands(pending[1]) \o Tail(pending))

\* The sub-expressions <block>.<f> of `exprs` with f not in `declared`
UnknownRefs(exprs, block, declared) ==
    SelectSeq(SubExpressions(exprs),
              LAMBDA e : /\ e.kind = "FieldAccess" /\ e.base.kind = "Identifier"
                         /\ e.base.name = block /\ e.field_name \notin declared)

\* An ERROR with this code and message is reported on the node `parent`
Reported(code, message, parent) ==
    \E i \in 1..Len(validator.errors) :
        /\ validator.errors[i].code = code /\ validator.errors[i].message = message
        /\ validator.errors[i].node = parent /\ validator.errors[i].severity = "ERROR"

\* Every unknown input.<f> and output.<f> below `exprs` is reported on `parent`
RefsReported(exprs, parent) ==
    /\ \A i \in 1..Len(UnknownRefs(exprs, "input", DeclaredInputs)) :
           Reported("E5001",
                    "Unknown input field: "
                        \o UnknownRefs(exprs, "input", DeclaredInputs)[i].field_name,
                    parent)
    /\ \A i \in 1..Len(UnknownRefs(exprs, "output", DeclaredOutputs)) :
           Reported("E5002",
                    "Unknown output field: "
                        \o UnknownRefs(exprs, "output", DeclaredOutputs)[i].field_name,
                    parent)

ConstraintsOf(constraint) == IF absent(constraint) THEN <<>> ELSE constraint.constraints
GoalExpressions(intent) ==
    IF absent(intent) \/ absent(intent.goal_spec) THEN <<>>
    ELSE intent.goal_spec.inputs \o intent.goal_spec.outputs

\* C15: for every CONSTRAINT expression and every INTENT goal input or
\* output expression, each sub-expression input.<f> (output.<f>) with f not
\* a declared INPUT (OUTPUT) field produces an ERROR E5001 (E5002), at
\* whatever depth it sits: operand of a binary or unary operator, argument
\* of a call, base of a longer field chain.
C15_ReferencesAtAnyDepth ==
    (Fresh /\ vpc = "returned") =>
        /\ \A i \in 1..Len(ConstraintsOf(unit.constraint)) :
               RefsReported(<<ConstraintsOf(unit.constraint)[i].expression>>,
                            ConstraintsOf(unit.constraint)[i])
        /\ RefsReported(GoalExpressions(unit.intent), unit.intent)

\* The ports an edge endpoint names: the field selected from an identifier
PortOf(expr) ==
    IF expr.kind = "FieldAccess" /\ expr.base.kind = "Identifier" THEN {expr.field_name}
    ELSE {}

\* The number of ERROR diagnostics with this code on the edge
EdgeErrors(edge, code) ==
    Cardinality({i \in ErrorsOn(edge) : validator.errors[i].code = code})

\* The keys of a map of the validator
Keys(d) == {d[i][1] : i \in 1..Len(d)}

\* What one end of an edge is to give: `block` is the base that names a
\* block at this end, `fields` the keys of that block's map
EndErrors(edge, expr, block, fields, field_code, node_code) ==
    /\ EdgeErrors(edge, field_code)
           = IF BaseOf(expr) = {block} /\ PortOf(expr) # {} /\ PortOf(expr) \cap fields = {}
             THEN 1 ELSE 0
    /\ EdgeErrors(edge, node_code)
           = IF BaseOf(expr) \notin {{}, {block}}
                /\ BaseOf(expr) \cap Keys(validator.flow_nodes) = {}
             THEN 1 ELSE 0

\* C16 (amended): for an edge source that resolves to (base, port), base
\* INPUT gives ERROR E4020 iff a port is given and is no key of the
\* Input-field map, and any other base, OUTPUT included, gives ERROR E4021
\* iff it is no key of the Flow-node map; for a target, base OUTPUT gives
\* E4022 iff a port is given and is no key of the Output-field map, and any
\* other base, INPUT included, gives E4023 iff it is no key of the
\* Flow-node map. An endpoint that does not resolve gives nothing.
C16_EndpointsBySide ==
    vpc = "returned" =>
        \A i \in 1..Len(EdgesOf(unit.flow)) :
            /\ EndErrors(EdgesOf(unit.flow)[i], EdgesOf(unit.flow)[i].source, "INPUT",
                         Keys(validator.input_fields), "E4020", "E4021")
            /\ EndErrors(EdgesOf(unit.flow)[i], EdgesOf(unit.flow)[i].target, "OUTPUT",
                         Keys(validator.output_fields), "E4022", "E4023")

\* Returned on the one edge `OUTPUT.y -> INPUT.x` with x and y declared:
\* both ends are reported as unknown nodes
C16_BlocksOnTheOtherSide ==
    /\ Fresh /\ vpc = "returned"
    /\ Len(EdgesOf(unit.flow)) = 1
    /\ BaseOf(EdgesOf(unit.flow)[1].source) = {"OUTPUT"}
    /\ PortOf(EdgesOf(unit.flow)[1].source) \subseteq DeclaredOutputs
    /\ BaseOf(EdgesOf(unit.flow)[1].target) = {"INPUT"}
    /\ PortOf(EdgesOf(unit.flow)[1].target) \subseteq DeclaredInputs
    /\ PortOf(EdgesOf(unit.flow)[1].source) # {} /\ PortOf(EdgesOf(unit.flow)[1].target) # {}
    /\ EdgeErrors(EdgesOf(unit.flow)[1], "E4021") = 1
    /\ EdgeErrors(EdgesOf(unit.flow)[1], "E4023") = 1

\* An end of an edge is reported, by either of its codes
EndReported(edge, codes) == \E i \in ErrorsOn(edge) : validator.errors[i].code \in codes

\* One end of an edge as the two ends alike are described: a port of INPUT
\* or OUTPUT is reported iff it is not declared in that block, any other
\* base iff it is not a declared node
EndAlike(edge, expr, codes) ==
    IF BaseOf(expr) = {"INPUT"} /\ PortOf(expr) # {}
    THEN EndReported(edge, codes) <=> PortOf(expr) \cap DeclaredInputs = {}
    ELSE IF BaseOf(expr) = {"OUTPUT"} /\ PortOf(expr) # {}
    THEN EndReported(edge, codes) <=> PortOf(expr) \cap DeclaredOutputs = {}
    ELSE IF BaseOf(expr) \notin {{}, {"INPUT"}, {"OUTPUT"}}
    THEN EndReported(edge, codes) <=> BaseOf(expr) \cap DeclaredNodes = {}
    ELSE TRUE

\* C16 as stated: source and target alike, base INPUT or OUTPUT gives an
\* ERROR iff the port is not a declared field of that block, any other base
\* iff it is not a declared node id.
C16_EndpointsAlike ==
    (Fresh /\ vpc = "returned") =>
        \A i \in 1..Len(EdgesOf(unit.flow)) :
            /\ EndAlike(EdgesOf(unit.flow)[i], EdgesOf(unit.flow)[i].source, {"E4020", "E4021"})
            /\ EndAlike(EdgesOf(unit.flow)[i], EdgesOf(unit.flow)[i].target, {"E4022", "E4023"})

\* C17: validate never raises and always returns a diagnostic list, for
\* every root built from the node types: any block slots absent, optional
\* fields (goal spec, verify kind, expression, test reference, edge source
\* and target) absent.
C17_ValidateNeverRaises == vpc # "raised"

\* The place in the order of the passes of the pass that reports a
\* diagnostic: a field reference is reported on a constraint by the
\* CONSTRAINT pass and on the INTENT block by the cross-reference pass
PassOf(e) ==
    CASE SubSeq(e.code, 1, 2) = "E1" -> 1
      [] e.code \in {"E2001", "E2002", "E4001"} -> 2
      [] e.code \in {"E2010", "E2011"} -> 3
      [] SubSeq(e.code, 1, 2) = "E3" -> 5
      [] SubSeq(e.code, 1, 2) = "E5" /\ e.node.kind = "Constraint" -> 6
      [] e.code = "E4010" -> 7
      [] e.code \in {"E4020", "E4021", "E4022", "E4023"} -> 8
      [] e.code = "E4030" -> 9
      [] SubSeq(e.code, 1, 2) = "E6" -> 10
      [] SubSeq(e.code, 1, 2) = "E7" -> 11
      [] SubSeq(e.code, 1, 2) = "E5" /\ e.node.kind = "IntentBlock" -> 12
      [] OTHER -> 0

PassesReporting == {PassOf(validator.errors[i]) : i \in 1..Len(validator.errors)}

\* C18: the diagnostics validate returns are in the order of the passes:
\* structural presence, duplicates of field collection, META, INPUT and
\* OUTPUT, INTENT, CONSTRAINT, FLOW (nodes, then edges, then connectivity),
\* EXECUTION, VERIFY, INTENT cross-references; none of a later pass precedes
\* one of an earlier pass.
C18_PassOrder ==
    vpc = "returned" =>
        /\ 0 \notin PassesReporting
        /\ \A i, j \in 1..Len(validator.errors) :
               i < j => PassOf(validator.errors[i]) <= PassOf(validator.errors[j])

\* Returned with diagnostics of field collection, META, CONSTRAINT, the
\* edges and the connectivity of FLOW, EXECUTION and the cross-references
C18_ManyPassesReport ==
    /\ vpc = "returned"
    /\ {2, 3, 6, 8, 9, 10, 12} \subseteq PassesReporting

\* C19: validate leaves the document tree unchanged: while validate runs
\* and after it returned or raised, the root it was given is what it was
\* when validate was called; the validator writes only to its own
\* diagnostic list and maps.
C19_TreeUnchanged ==
    vpc \notin {"none", "idle"} => unit = calls[Len(calls)]

\* validate returned diagnostics and filled its maps on a root with a
\* repeated INPUT name, and the root is as it was given
C19_ReturnedWithFindings ==
    /\ vpc = "returned"
    /\ Repeated(EntryNames(unit.input)) # {}
    /\ Len(ErrorsWith("E2001")) > 0
    /\ Len(validator.input_fields) > 0 /\ Len(validator.flow_nodes) > 0
    /\ unit = calls[Len(calls)]

\* What Validator().validate(u) returns when it returns: the passes of
\* validate in their order, from the fields of a new Validator
FreshDiagnostics(u, order) ==
    LET a == collect_fields(validate_blocks_exist(Validator, u), u)
        b == validate_output(validate_input(validate_meta(a, u.meta, order), u.input),
                             u.output)
        c == validate_constraint(validate_intent(b, u.intent), u.constraint)
        d == validate_execution(validate_flow(c, u.flow), u.execution)
    IN  validate_cross_references(validate_verify(d, u.verify).v, u).errors

\* C20: the diagnostics validate(u) returns depend only on u: after any
\* earlier validate calls on the same Validator, on u or on other trees, it
\* returns what a fresh Validator returns for u.
C20_DependsOnlyOnTree ==
    vpc = "returned" => validator.errors = FreshDiagnostics(unit, hash_order)

(***************************************************************************)
(* The pipeline on a source text: Lexer(source).tokenize(), then           *)
(* Parser(tokens).parse(), then Validator().validate(tree).                *)
(***************************************************************************)

\* test_source of the parser's __main__
SampleDocument ==
    "\n"
    \o "UNIT FUNCTION examples.add_numbers V1.0.0\n"
    \o "\n"
    \o "META\n"
    \o "  DOMAIN examples.math\n"
    \o "  DETERMINISM true\n"
    \o "  PURE true\n"
    \o "ENDMETA\n"
    \o "\n"
    \o "INPUT\n"
    \o "  a : INT32\n"
    \o "  b : INT32\n"
    \o "ENDINPUT\n"
    \o "\n"
    \o "OUTPUT\n"
    \o "  sum : INT32\n"
    \o "ENDOUTPUT\n"
    \o "\n"
    \o "INTENT\n"
    \o "  GOAL TRANSFORM: input.a, input.b -> output.sum\n"
    \o "  PRIORITY CORRECTNESS\n"
    \o "ENDINTENT\n"
    \o "\n"
    \o "CONSTRAINT\n"
    \o "  REQUIRE input.a >= -1000000 AND input.a <= 1000000\n"
    \o "  REQUIRE input.b >= -1000000 AND input.b <= 1000000\n"
    \o "ENDCONSTRAINT\n"
    \o "\n"
    \o "FLOW\n"
    \o "  NODE add : TRANSFORM (op=ADD, left=input.a, right=input.b)\n"
    \o "\n"
    \o "  EDGE INPUT.a -> add\n"
    \o "  EDGE INPUT.b -> add\n"
    \o "  EDGE add     -> OUTPUT.sum\n"
    \o "ENDFLOW\n"
    \o "\n"
    \o "EXECUTION\n"
    \o "  PARALLEL false\n"
    \o "  TARGET ANY\n"
    \o "  MEMORY STACK_ONLY\n"
    \o "ENDEXECUTION\n"
    \o "\n"
    \o "VERIFY\n"
    \o "  ASSERT output.sum == input.a + input.b\n"
    \o "  TEST @tests.math.add_positive\n"
    \o "ENDVERIFY\n"
    \o "\n"
    \o "END\n"

\* The document of the end-to-end scenario, with nothing else in its blocks
AddDocument ==
    "UNIT FUNCTION examples.add V1.0.0\n"
    \o "META\n"
    \o "ENDMETA\n"
    \o "INPUT\n"
    \o "  a : INT32\n"
    \o "  b : INT32\n"
    \o "ENDINPUT\n"
    \o "OUTPUT\n"
    \o "  sum : INT32\n"
    \o "ENDOUTPUT\n"
    \o "INTENT\n"
    \o "  GOAL TRANSFORM: input.a, input.b -> output.sum\n"
    \o "ENDINTENT\n"
    \o "CONSTRAINT\n"
    \o "ENDCONSTRAINT\n"
    \o "FLOW\n"
    \o "  NODE add : TRANSFORM\n"
    \o "  EDGE INPUT.a -> add\n"
    \o "  EDGE INPUT.b -> add\n"
    \o "  EDGE add -> OUTPUT.sum\n"
    \o "ENDFLOW\n"
    \o "EXECUTION\n"
    \o "ENDEXECUTION\n"
    \o "VERIFY\n"
    \o "  ASSERT output.sum == input.a + input.b\n"
    \o "ENDVERIFY\n"
    \o "END\n"

\* A document validate has findings on
FindingsDocument ==
    "UNIT MODULE m\n"
    \o "META\n"
    \o "DETERMINISM 5\n"
    \o "ENDMETA\n"
    \o "INPUT\n"
    \o "x : INT32\n"
    \o "x : STRING\n"
    \o "ENDINPUT\n"
    \o "OUTPUT\n"
    \o "z : BOOL\n"
    \o "ENDOUTPUT\n"
    \o "INTENT\n"
    \o "GOAL TRANSFORM: input.q -> output.y\n"
    \o "ENDINTENT\n"
    \o "CONSTRAINT\n"
    \o "REQUIRE input.q\n"
    \o "$ /ab/\n"
    \o "ENDCONSTRAINT\n"
    \o "FLOW\n"
    \o "NODE n : MAP\n"
    \o "EDGE OUTPUT.y -> k\n"
    \o "ENDFLOW\n"
    \o "EXECUTION\n"
    \o "MEMORY BOUNDED\n"
    \o "ENDEXECUTION\n"
    \o "VERIFY\n"
    \o "TEST @t\n"
    \o "ENDVERIFY\n"
    \o "END\n"

\* A document that lacks the INPUT block, and one that ends inside a string
\* literal after a backslash
BrokenDocument == "UNIT MODULE m\n" \o "META\n" \o "ENDMETA\n" \o "OUTPUT\n"
OpenLiteralDocument == "UNIT MODULE m \"\\"

PipelineSources ==
    {SampleDocument, AddDocument, FindingsDocument, BrokenDocument, OpenLiteralDocument}

PipelineInit ==
    /\ \E text \in PipelineSources : LexerNew(text)
    /\ ParserIdle
    /\ ValidatorIdle
    /\ Alone

\* parse(source): Parser(tokens) on the tokens tokenize returned; parse is
\* about to run
ParserOnTokens ==
    /\ lpc = "returned"
    /\ ppc = "none"
    /\ p_tokens' = without_newlines(tokens)
    /\ p_pos' = 0
    /\ ppc' = "unit"
    /\ UNCHANGED <<peer, lexvars, blocks, acc, result, perr, loose, bend, valvars>>

\* validate(unit) of the validator module on the tree parse returned:
\* the one call on the new Validator
ValidateTree ==
    /\ vpc = "idle"
    /\ calls = <<>>
    /\ unit' = result
    /\ calls' = <<result>>
    /\ validator' = [validator EXCEPT !.errors = <<>>]
    /\ vpc' = "blocks_exist"
    /\ vexc' = None
    /\ UNCHANGED <<peer, lexvars, parvars, hash_order>>

Pipeline == tokenize \/ ParserOnTokens \/ parse \/ ValidatorNew \/ ValidateTree \/ passes

PipelineSpec == PipelineInit /\ [][Pipeline]_vars

(***************************************************************************)
(* Two pipeline instances in one process.  The fields of the Lexer, the    *)
(* Parser and the Validator of the instance that runs are the variables;   *)
(* those of the instance that waits are kept in peer.other.  What the      *)
(* process holds for both is the keyword table KEYWORDS and the order in   *)
(* which its sets iterate (hash_order).  Each instance first runs alone,   *)
(* then both are constructed again and run with their steps interleaved.   *)
(***************************************************************************)

\* The objects of the instance that runs: what the three __init__ set on
\* self, and where the methods stand
Instance ==
    [kind |-> "Instance",
     source |-> source,
     pos |-> pos,
     line |-> line,
     column |-> column,
     tokens |-> tokens,
     lpc |-> lpc,
     lexc |-> lexc,
     returned |-> returned,
     p_tokens |-> p_tokens,
     p_pos |-> p_pos,
     ppc |-> ppc,
     blocks |-> blocks,
     acc |-> acc,
     result |-> result,
     perr |-> perr,
     loose |-> loose,
     bend |-> bend,
     validator |-> validator,
     unit |-> unit,
     vpc |-> vpc,
     vexc |-> vexc,
     calls |-> calls]

\* The instance about to run on a source text: Lexer(text), no Parser and no
\* Validator yet
NewInstance(text) ==
    [kind |-> "Instance",
     source |-> text, pos |-> 0, line |-> 1, column |-> 1, tokens |-> <<>>, lpc |-> "loop",
     lexc |-> None, returned |-> <<>>,
     p_tokens |-> <<>>, p_pos |-> 0, ppc |-> "none", blocks |-> NoBlocks, acc |-> None,
     result |-> None, perr |-> None, loose |-> {}, bend |-> [b \in BlockSet |-> 0],
     validator |-> None, unit |-> None, vpc |-> "none", vexc |-> None, calls |-> <<>>]

\* The instance i is the one that runs from now on
Resume(i) ==
    /\ source' = i.source
    /\ pos' = i.pos
    /\ line' = i.line
    /\ column' = i.column
    /\ tokens' = i.tokens
    /\ lpc' = i.lpc
    /\ lexc' = i.lexc
    /\ returned' = i.returned
    /\ p_tokens' = i.p_tokens
    /\ p_pos' = i.p_pos
    /\ ppc' = i.ppc
    /\ blocks' = i.blocks
    /\ acc' = i.acc
    /\ result' = i.result
    /\ perr' = i.perr
    /\ loose' = i.loose
    /\ bend' = i.bend
    /\ validator' = i.validator
    /\ unit' = i.unit
    /\ vpc' = i.vpc
    /\ vexc' = i.vexc
    /\ calls' = i.calls

\* The pipeline of an instance came to its end: validate returned, or one of
\* the three stages raised
Finished(i) == i.lpc = "raised" \/ i.ppc = "raised" \/ i.vpc \in {"returned", "raised"}

PairSources == {FindingsDocument, BrokenDocument, OpenLiteralDocument}

PairInit ==
    /\ \E text \in PairSources : LexerNew(text)
    /\ ParserIdle
    /\ ValidatorIdle
    /\ \E text \in PairSources :
          peer = [kind |-> "Peer", running |-> 1, together |-> FALSE,
                  other |-> NewInstance(text), alone |-> <<None, None>>]

\* The first instance has run alone: the second runs alone
SecondAlone ==
    /\ ~peer.together
    /\ peer.running = 1
    /\ Finished(Instance)
    /\ Resume(peer.other)
    /\ peer' = [peer EXCEPT !.running = 2, !.other = Instance, !.alone[1] = Instance]
    /\ UNCHANGED hash_order

\* Both instances have run alone: both are constructed again on their
\* sources, to run together
Together ==
    /\ ~peer.together
    /\ peer.running = 2
    /\ Finished(Instance)
    /\ Resume(NewInstance(source))
    /\ peer' = [peer EXCEPT !.together = TRUE, !.other = NewInstance(peer.other.source),
                            !.alone[2] = Instance]
    /\ UNCHANGED hash_order

\* A switch of the running thread sharing the token list: Lexer.tokens as
\* one list of the class, not of each object
SwitchSharingTokens ==
    LET i == peer.other
    IN  /\ peer.together
        /\ ~Finished(peer.other)
        /\ tokens' = tokens
        /\ source' = i.source
        /\ pos' = i.pos
        /\ line' = i.line
        /\ column' = i.column
        /\ lpc' = i.lpc
        /\ lexc' = i.lexc
        /\ returned' = i.returned
        /\ p_tokens' = i.p_tokens
        /\ p_pos' = i.p_pos
        /\ ppc' = i.ppc
        /\ blocks' = i.blocks
        /\ acc' = i.acc
        /\ result' = i.result
        /\ perr' = i.perr
        /\ loose' = i.loose
        /\ bend' = i.bend
        /\ validator' = i.validator
        /\ unit' = i.unit
        /\ vpc' = i.vpc
        /\ vexc' = i.vexc
        /\ calls' = i.calls
        /\ peer' = [peer EXCEPT !.running = 3 - @, !.other = Instance]
        /\ UNCHANGED hash_order

\* The running thread changes: the instance that waited goes on
Switch ==
    /\ peer.together
    /\ ~Finished(peer.other)
    /\ Resume(peer.other)
    /\ peer' = [peer EXCEPT !.running = 3 - @, !.other = Instance]
    /\ UNCHANGED hash_order

PairNext == Pipeline \/ SecondAlone \/ Together \/ Switch

PairSpec == PairInit /\ [][PairNext]_vars

(***************************************************************************)
(* Properties of the pipeline and of the lexer                             *)
(***************************************************************************)

\* C21: two pipeline instances, each with its own Lexer, Parser and
\* Validator and its own document, give under every interleaving of their
\* steps the same tokens, tree and diagnostics as when each runs alone: an
\* instance that came to its end while they run together is, field by
\* field, what it was at its end when it ran alone.
C21_SameAsAlone ==
    peer.together =>
        /\ Finished(Instance) => Instance = peer.alone[peer.running]
        /\ Finished(peer.other) => peer.other = peer.alone[3 - peer.running]

\* Run together, one instance has its diagnostics while the other, which
\* began before, is still in the loop of tokenize
C21_EndedWhileOtherRuns ==
    /\ peer.together
    /\ vpc = "returned" /\ Len(validator.errors) > 0
    /\ peer.other.lpc = "loop" /\ Len(peer.other.tokens) > 2
    /\ peer.other.source = source

\* The documents of the end-to-end scenario: the one with nothing else in
\* its blocks, and the parser's test source
AddDocuments == {AddDocument, SampleDocument}

\* C22: a document with all nine blocks in order that declares INPUT a and
\* b, OUTPUT sum, the goal `input.a, input.b -> output.sum`, one TRANSFORM
\* node `add` wired from INPUT.a and INPUT.b to OUTPUT.sum and the
\* assertion `output.sum == input.a + input.b` is tokenized and parsed
\* without an exception, and a fresh validator returns no diagnostic of
\* severity ERROR for it.
C22_AddValidates ==
    source \in AddDocuments =>
        /\ lpc # "raised" /\ ppc # "raised" /\ vpc # "raised"
        /\ vpc \notin {"none", "idle"} =>
               \A i \in 1..Len(validator.errors) : validator.errors[i].severity # "ERROR"

\* validate returned on the tree of the scenario's document: two inputs,
\* one output, one node, three edges, one assertion
C22_AddValidated ==
    /\ source = AddDocument
    /\ ppc = "returned" /\ vpc = "returned"
    /\ Len(unit.input.entries) = 2 /\ Len(unit.output.entries) = 1
    /\ Len(unit.intent.goal_spec.inputs) = 2 /\ Len(unit.intent.goal_spec.outputs) = 1
    /\ Len(unit.flow.nodes) = 1 /\ Len(unit.flow.edges) = 3
    /\ Len(unit.verify.entries) = 1
    /\ unit.verify.entries[1].expression.kind = "BinaryOp"

(***************************************************************************)
(* Positions of the expression nodes                                       *)
(***************************************************************************)
\* The types of the tokens that stand at the line and column of node e
TypesAt(e) ==
    {p_tokens[k].type : k \in {j \in 1..Len(p_tokens) : /\ p_tokens[j].line = e.line
                                                         /\ p_tokens[j].column = e.column}}

\* Node e carries the position of the leftmost token it was built from
AtLeftmostToken(e) ==
    CASE e.kind = "BinaryOp" -> e.line = e.left.line /\ e.column = e.left.column
      [] e.kind = "UnaryOp" -> TypesAt(e) \subseteq {"NOT", "MINUS"}
      [] e.kind = "FunctionCall" -> TypesAt(e) \subseteq builtin_funcs
      [] OTHER -> TypesAt(e) \cap {"NOT", "MINUS"} = {}

\* C23: every expression node carries the line and column of the leftmost
\* token it was built from: a binary operation the position of its left
\* operand, a unary operation the position of its NOT or - token.
C23_PositionOfLeftmostToken ==
    ppc = "returned" =>
        \A i \in 1..Len(SubExpressions(<<result>>)) :
            AtLeftmostToken(SubExpressions(<<result>>)[i])

(***************************************************************************)
(* The findings of the META block                                          *)
(***************************************************************************)
\* The diagnostics with this code, message and severity on this node
Findings(code, message, severity, node) ==
    SelectSeq(validator.errors,
              LAMBDA e : /\ e.code = code /\ e.message = message
                         /\ e.severity = severity /\ e.node = node)

RequiredKeys == {"DOMAIN", "DETERMINISM"}

MetaKeys == {unit.meta.entries[i].key : i \in 1..Len(unit.meta.entries)}

\* The META entries whose key is DETERMINISM and whose value is no boolean
NotBoolean ==
    {i \in 1..Len(unit.meta.entries) :
        /\ unit.meta.entries[i].key = "DETERMINISM"
        /\ unit.meta.entries[i].value \notin {[bool |-> TRUE], [bool |-> FALSE]}}

\* C24: for a present META block validate gives exactly one E2010 WARNING for
\* each of DOMAIN and DETERMINISM that no entry carries, and an E2011 ERROR
\* on a DETERMINISM entry exactly when its value is no boolean; nothing else
\* carries these codes, so an absent key never gives an ERROR.
C24_MetaFindings ==
    (vpc = "returned" /\ ~absent(unit.meta)) =>
        /\ \A key \in RequiredKeys :
              Len(Findings("E2010", "Missing required META entry: " \o key, "WARNING",
                           unit.meta))
                  = IF key \in MetaKeys THEN 0 ELSE 1
        /\ Len(ErrorsWith("E2010")) = Cardinality(RequiredKeys \ MetaKeys)
        /\ \A i \in 1..Len(unit.meta.entries) :
              Len(Findings("E2011", "DETERMINISM must be boolean (true/false)", "ERROR",
                           unit.meta.entries[i]))
                  = IF i \in NotBoolean THEN 1 ELSE 0
        /\ Len(ErrorsWith("E2011")) = Cardinality(NotBoolean)

\* validate returned on a META block without DOMAIN whose first DETERMINISM is
\* a name and whose second is a boolean
C24_OneMissingOneNotBoolean ==
    /\ vpc = "returned" /\ ~absent(unit.meta)
    /\ MetaKeys = {"DETERMINISM"}
    /\ NotBoolean = {1} /\ Len(unit.meta.entries) = 2
    /\ Len(ErrorsWith("E2010")) = 1 /\ Len(ErrorsWith("E2011")) = 1

(***************************************************************************)
(* The text of the number tokens                                           *)
(***************************************************************************)
UnitSuffixes == {"", "ms", "s", "m", "h", "K", "M", "G", "KB", "MB", "GB"}

Dots(s) == {i \in 1..Len(s) : SubSeq(s, i, i) = "."}

\* An optional `-`, then digits with at most one `.`
IsNumeral(s) ==
    /\ \A i \in 1..Len(s) :
          \/ isdigit(SubSeq(s, i, i))
          \/ SubSeq(s, i, i) = "."
          \/ i = 1 /\ SubSeq(s, i, i) = "-"
    /\ Cardinality(Dots(s)) <= 1

\* The token's text is a numeral and at most one unit suffix, and its type is
\* FLOAT exactly when the numeral has a `.`
IsNumberText(t) ==
    \E k \in 0..Len(t.value) :
        /\ IsNumeral(SubSeq(t.value, 1, k))
        /\ SubSeq(t.value, k + 1, Len(t.value)) \in UnitSuffixes
        /\ (t.type = "FLOAT") <=> (Dots(SubSeq(t.value, 1, k)) # {})

\* C25: the text of every NUMBER or FLOAT token is an optional `-`, digits
\* with at most one `.`, and at most one unit suffix, a duration (ms, s, m, h)
\* or a size (K, M, G, then optionally B), never one after the other; the
\* type is FLOAT exactly when a `.` was consumed.
C25_NumberText ==
    \A i \in 1..Len(tokens) :
        tokens[i].type \in {"NUMBER", "FLOAT"} => IsNumberText(tokens[i])

(***************************************************************************)
(* The end keyword of a block                                              *)
(***************************************************************************)
LoopBlocks == {"meta", "input", "output", "constraint", "flow", "execution", "verify"}

\* parse is inside block b: its open keyword is consumed, its loop not left
Inside(b) == acc.kind = b

\* The tokens parse consumed since the open keyword of the block it is in
ConsumedInside == {i \in 1..p_pos : i > TokenIndex(acc.token)}

\* C26: inside every block the first occurrence of the block's end keyword
\* after the open keyword closes the block: while parse is inside a block no
\* end keyword of that block is among the tokens consumed as its entries,
\* neither as the value of a META entry nor as the duration after REQUIRE
\* WITHIN.
C26_EndKeywordCloses ==
    \A b \in LoopBlocks :
        Inside(b) => \A i \in ConsumedInside : p_tokens[i].type # EndKeywords[b]

(***************************************************************************)
(* The settings of the EXECUTION block                                     *)
(***************************************************************************)
\* The places of the tokens of the EXECUTION block with this type
SettingsOf(key) ==
    {i \in 1..Len(p_tokens) : /\ InsideBlock(i, "execution")
                              /\ p_tokens[i].type = key}

\* The last setting of `key` is one of `policies` and a NUMBER follows it
LastSupplies(key, policies) ==
    \E i \in SettingsOf(key) :
        /\ \A j \in SettingsOf(key) : j <= i
        /\ p_tokens[i + 1].type \in policies
        /\ p_tokens[i + 2].type = "NUMBER"

\* The last MEMORY setting is BOUNDED and no NUMBER follows it
LastBoundedWithoutLimit ==
    \E i \in SettingsOf("MEMORY") :
        /\ \A j \in SettingsOf("MEMORY") : j <= i
        /\ p_tokens[i + 1].type = "BOUNDED"
        /\ p_tokens[i + 2].type # "NUMBER"

\* C27: after any sequence of settings in an EXECUTION block memory_limit is
\* set only if the last MEMORY setting was BOUNDED and supplied a limit, and
\* cache_size only if the last CACHE setting was LRU or TTL and supplied a
\* size; validate on the parsed tree gives the E6001 warning exactly when the
\* last MEMORY setting is BOUNDED without a limit.
C27_LastSettingAlone ==
    (vpc = "returned" /\ unit = result) =>
        /\ unit.execution.memory_limit # None => LastSupplies("MEMORY", {"BOUNDED"})
        /\ unit.execution.cache_size # None => LastSupplies("CACHE", {"LRU", "TTL"})
        /\ Len(ErrorsWith("E6001")) = IF LastBoundedWithoutLimit THEN 1 ELSE 0

(***************************************************************************)
(* tokenize called again on the Lexer whose tokenize returned.  The method *)
(* sets no field before its loop: pos stays at the end of the source and   *)
(* self.tokens stays the list the first call returned.                     *)
(***************************************************************************)
MaxTokenizeCalls == 2

\* lexer.tokenize(), once more
TokenizeCall ==
    /\ lpc = "returned"
    /\ Len(returned) < MaxTokenizeCalls
    /\ lpc' = "loop"
    /\ UNCHANGED <<source, pos, line, column, tokens, lexc, returned, parvars, valvars, peer>>

Retokenize == tokenize \/ TokenizeCall

RetokenizeSpec == Init /\ [][Retokenize]_vars

EOFs(ts) == {i \in 1..Len(ts) : ts[i].type = "EOF"}

\* C28: tokenize is idempotent on one Lexer: the second call returns the
\* sequence the first call returned, with exactly one EOF token, and the list
\* the first call returned, which is self.tokens, still holds what it held.
C28_TokenizeIdempotent ==
    Len(returned) = 2 =>
        /\ returned[2] = returned[1]
        /\ Cardinality(EOFs(returned[2])) = 1
        /\ tokens = returned[1]

(***************************************************************************)
(* Validator().validate(tree) on the trees Parser(tokens).parse() returns  *)
(* on the documents of ParseSpec                                           *)
(***************************************************************************)
Parsed == parse \/ ValidatorNew \/ ValidateTree \/ passes

ParsedSpec == ParseInit /\ [][Parsed]_vars

\* The codes of an absent block, of an INTENT without goal kind, inputs or
\* outputs, and of a VERIFY entry without reference or expression
ShapeCodes ==
    {"E1001", "E1002", "E1003", "E1004", "E1005", "E1006", "E1007", "E1008", "E1009",
     "E3001", "E3002", "E3003", "E7001", "E7002"}

\* The root has all nine blocks, its INTENT a goal kind and a goal with an
\* input and an output, its TEST entries a reference, its other VERIFY
\* entries an expression
WellShaped(u) ==
    /\ \A b \in BlockSet : ~absent(u[b])
    /\ u.intent.goal_type \in goal_type_map
    /\ ~absent(u.intent.goal_spec)
    /\ Len(u.intent.goal_spec.inputs) > 0 /\ Len(u.intent.goal_spec.outputs) > 0
    /\ \A i \in 1..Len(u.verify.entries) :
          LET e == u.verify.entries[i]
          IN  IF e.verify_type = "TEST"
              THEN ~absent(e.test_ref) /\ Len(e.test_ref.value) > 0
              ELSE e.verify_type \in verify_type_map /\ ~absent(e.expression)

\* C29: for every tree parse returns, a new Validator gives none of
\* E1001..E1009, E3001..E3003, E7001, E7002 and does not raise: the root has
\* no absent block, its INTENT a goal kind, an input and an output, its TEST
\* entries a reference and its other VERIFY entries an expression.
C29_ParsedTreesWellShaped ==
    /\ ppc = "returned" => WellShaped(result)
    /\ vpc # "raised"
    /\ vpc \notin {"none", "idle"} =>
          \A i \in 1..Len(validator.errors) : validator.errors[i].code \notin ShapeCodes

\* validate returned with findings on a parsed tree with VERIFY entries
C29_ParsedAndValidated ==
    /\ ppc = "returned" /\ vpc = "returned" /\ unit = result
    /\ Len(unit.verify.entries) > 1
    /\ \E i \in 1..Len(unit.verify.entries) : unit.verify.entries[i].verify_type = "TEST"
    /\ Len(validator.errors) > 0

(***************************************************************************)
(* The order of the diagnostics                                            *)
(***************************************************************************)
\* The required keys in the order their set is written in _validate_meta
WrittenOrder == <<"DOMAIN", "DETERMINISM">>

\* C30: validate is deterministic: every run of a new Validator on a tree
\* returns the same diagnostics in the same order, the two E2010 warnings of
\* a META block without DOMAIN and DETERMINISM included: whatever the run,
\* they are the diagnostics the passes give with the required keys in one
\* order.
C30_SameOrderEveryRun ==
    (vpc = "returned" /\ Fresh) => validator.errors = FreshDiagnostics(unit, WrittenOrder)

====
